---------------------------- MODULE Spec2Model ----------------------------
(***************************************************************************)
(* A model of drift: the event bus daemon (crates/drift-daemon) and the    *)
(* per-project process supervisor (crates/drift-core/src/supervisor.rs).   *)
(*                                                                         *)
(* Option<T> is modelled as a sequence of length at most one: None is <<>> *)
(* and Some(x) is <<x>>.  HashMap<K, V> is a function whose DOMAIN is the  *)
(* set of keys present.  VecDeque<T> and mpsc channels are sequences.      *)
(***************************************************************************)
EXTENDS Integers, Sequences, FiniteSets, TLC

None == <<>>
Some(x) == <<x>>

Range(f) == {f[k] : k \in DOMAIN f}

\* Every enumeration of a finite set: the orders a HashSet iteration can take.
Orders(S) ==
    {f \in [1..Cardinality(S) -> S] : \A i, j \in 1..Cardinality(S) : f[i] = f[j] => i = j}

\* The last n elements of a sequence (all of it when it is shorter).
LastN(s, n) == IF Len(s) <= n THEN s ELSE SubSeq(s, Len(s) - n + 1, Len(s))

-----------------------------------------------------------------------------
(* Bounds of the model.                                                    *)

\* events.buffer_size of the global config (default 200), scaled down.
buffer_size == 2
\* events.replay_on_subscribe of the global config (default 20), scaled down;
\* it is set apart from buffer_size and, as with a ring of 5, exceeds it.
replay_count == 3
\* Events the state owner processes in one run of the model.
MaxEvents == 4
\* Events the state owner processes in one run beside the subscriber manager.
MaxSubEvents == 5
\* Those of them that emitters sent.
MaxEmits == 1
\* Events the state owner processes in one run under every compositor event.
MaxMirrorEvents == 2

Projects == {"alpha", "beta"}
WsIds == {1, 2}
WinIds == {1}
Outputs == {"eDP-1"}
Levels == {"error", "success", "warning", "info", "debug"}
Priorities == {"silent", "low", "medium", "high", "critical"}

-----------------------------------------------------------------------------
VARIABLES
    \* DaemonInner
    workspaces,            \* HashMap<u64, Workspace>
    windows,               \* HashMap<u64, Window>
    workspace_to_project,  \* HashMap<u64, String>
    known_projects,        \* HashSet<String>
    active_project,        \* Option<String>
    focused_workspace_id,  \* Option<u64>
    events,                \* HashMap<String, VecDeque<Event>>
    subscriber_tx,         \* the mpsc channel to the subscriber manager
    \* the environment of the state owner
    clock,                 \* what iso_now() returns next
    processed,             \* every process_event call so far, in order
    notified,              \* every notify-send invocation so far, in order
    \* run_subscriber_manager and the subscribe socket
    sub_pc,                \* "accept": in the accept loop; "recv": in the try_recv loop
    sub_received,          \* how many messages of subscriber_tx rx has taken
    pending,               \* connections made and not yet accepted, oldest first
    subscribers,           \* Vec<UnixStream>
    replay_buffer,         \* VecDeque<Event>
    lines,                 \* per connection made: the lines written to it
    peer_open,             \* per connection made: the peer still reads
    accepted_at,           \* per connection accepted: sub_received at its accept
    \* one call of classify_priority, for the properties of the function alone
    classify_call,
    \* run_supervisor
    sup_pc,                \* "spawn", "publish", "top", "svc", "end", "done"
    sup_idx,               \* the service a for loop is at
    sup_config,            \* the ServiceProcess list of the project config
    services,              \* Vec<ManagedService>
    state_changed,
    SHUTDOWN,              \* the supervisor's AtomicBool
    published,             \* Option<ServicesState>: the state file
    spawn_count,           \* per service: children created for it so far
    short_exits,           \* per service: exits after < 5 s since the last reset
    ran_for,               \* per service: how long the child that last exited lived
    \* a state file (ServicesState, DaemonState), its writer and a reader
    file_pc,               \* "idle", "writing" (in fs::write), "rename"
    file_version,          \* how many states the writer has serialized
    file_tmp,              \* the content of <path>.json.tmp, if it exists
    file_target,           \* the content of <path>.json, if it exists
    observed,              \* what the reader last read at <path>.json
    \* run_commander: the subscribe-reader thread of the announcer
    cmd_pc,                \* "flush": before flush_expired; "read": in read_line
    cmd_now,               \* Instant::now(), in seconds
    entries,               \* CooldownTracker::entries
    speech_tx,             \* the messages sent to the speech worker, in order
    heard,                 \* the speakable events read so far, with their instants
    \* speech_worker: the announcer's speech thread and its TtsState
    engine,                \* TtsState::engine: "Http", "Fallback", "None"
    last_http_check,       \* TtsState::last_http_check, in seconds
    fallback_configured,   \* config.fallback_engine or fallback_command is set
    tts_now,               \* Instant::now() of the speech thread, in seconds
    spoken,                \* how many messages the worker has received
    attempts,              \* every speak_http and speak_fallback call, in order
    probes,                \* every check_http_tts call, in order
    \* run_supervisor and graceful_shutdown with their instants, in ms
    sup_now,               \* Instant::now() of the supervisor
    signal_at,             \* Option: when handle_signal ran
    deadline,              \* graceful_shutdown: deadline
    sent,                  \* the stop commands run and the signals sent, in order
    proc,                  \* per service: its child process, "alive", "exited"
                           \* (not yet waited for), "reaped", or "none"
    pid_file,              \* the supervisor pid file exists
    started_at,            \* per service: ManagedService::started_at
    last_exit,             \* per service: ManagedService::last_exit
    restarted,             \* the service.restarted events emitted, in order
    sup_events,            \* every event the supervisor emitted, in order
    \* run_emit_listener
    emit_stream,           \* Option: the lines still to come on the accepted connection
    emit_offered,          \* the lines the client of that connection wrote
    emit_taken,            \* the events sent to the state owner from that connection
    \* run_daemon: where its threads are, for its shutdown
    run_daemon,            \* SHUTDOWN, the four threads, the compositor, an emit client
    \* run_commander and speech_worker: the channel, the flag, the playback
    speech,                \* interrupt, speech_rx, the utterance playing, those finished
    \* drift open and the supervisor of one project: the pid file and the processes
    singleton,             \* supervisor.pid, the live supervisors, each open's position
    \* run_commander: the mute marker
    muted,                 \* the marker file exists; the lines read and discarded
    \* run_emit_listener with several clients
    emit_socket            \* the connections waiting, the one being read, the lines

daemonVars ==
    <<workspaces, windows, workspace_to_project, known_projects, active_project,
      focused_workspace_id, events, subscriber_tx, clock, processed, notified>>

subVars ==
    <<sub_pc, sub_received, pending, subscribers, replay_buffer, lines, peer_open,
      accepted_at>>

supVars ==
    <<sup_pc, sup_idx, sup_config, services, state_changed, SHUTDOWN, published,
      spawn_count, short_exits, ran_for>>

fileVars == <<file_pc, file_version, file_tmp, file_target, observed>>

cmdVars == <<cmd_pc, cmd_now, entries, speech_tx, heard>>

ttsVars ==
    <<engine, last_http_check, fallback_configured, tts_now, spoken, attempts, probes>>

timedVars ==
    <<sup_now, signal_at, deadline, sent, proc, pid_file, started_at, last_exit, restarted,
      sup_events>>

emitVars == <<emit_stream, emit_offered, emit_taken>>

vars ==
    <<daemonVars, subVars, classify_call, supVars, fileVars, cmdVars, ttsVars, timedVars,
      emitVars, run_daemon, speech, singleton, muted, emit_socket>>

\* What a step of the state owner, of the subscriber manager and its clients,
\* and of the supervisor leaves alone: the other threads and processes.
outsideDaemon ==
    <<subVars, classify_call, supVars, fileVars, cmdVars, ttsVars, timedVars, emitVars, run_daemon, speech, singleton, muted, emit_socket>>
outsideSubscribers ==
    <<daemonVars, classify_call, supVars, fileVars, cmdVars, ttsVars, timedVars, emitVars, run_daemon, speech, singleton, muted, emit_socket>>
outsideClassify == <<daemonVars, subVars, supVars, fileVars, cmdVars, ttsVars, timedVars, emitVars, run_daemon, speech, singleton, muted, emit_socket>>
outsideSupervisor ==
    <<daemonVars, subVars, classify_call, fileVars, cmdVars, ttsVars, timedVars, emitVars, run_daemon, speech, singleton, muted, emit_socket>>
outsideTimedSupervisor ==
    <<daemonVars, subVars, classify_call, fileVars, cmdVars, ttsVars, emitVars, run_daemon, speech, singleton, muted, emit_socket>>
outsideFiles ==
    <<daemonVars, subVars, classify_call, supVars, cmdVars, ttsVars, timedVars, emitVars, run_daemon, speech, singleton, muted, emit_socket>>
outsideCommander ==
    <<daemonVars, subVars, classify_call, supVars, fileVars, ttsVars, timedVars, emitVars, run_daemon, speech, singleton, muted, emit_socket>>
outsideEmitSocket ==
    <<daemonVars, subVars, classify_call, supVars, fileVars, cmdVars, ttsVars, timedVars,
      emitVars, run_daemon, speech, singleton, muted>>
outsideMuted ==
    <<daemonVars, subVars, classify_call, supVars, fileVars, ttsVars, timedVars, emitVars, run_daemon, speech, singleton, emit_socket>>
outsideEmit ==
    <<daemonVars, subVars, classify_call, supVars, fileVars, cmdVars, ttsVars, timedVars, run_daemon, speech, singleton, muted, emit_socket>>
outsideThreads ==
    <<daemonVars, subVars, classify_call, supVars, fileVars, cmdVars, ttsVars, timedVars,
      emitVars, speech, singleton, muted, emit_socket>>
outsidePlayback ==
    <<daemonVars, subVars, classify_call, supVars, fileVars, cmdVars, ttsVars, timedVars,
      emitVars, run_daemon, singleton, muted, emit_socket>>
outsideSingleton ==
    <<daemonVars, subVars, classify_call, supVars, fileVars, cmdVars, ttsVars, timedVars,
      emitVars, run_daemon, speech, muted, emit_socket>>
outsideSpeech ==
    <<daemonVars, subVars, classify_call, supVars, fileVars, cmdVars, timedVars, emitVars, run_daemon, speech, singleton, muted, emit_socket>>

-----------------------------------------------------------------------------
(* Event and the state owner's pure helpers.                               *)

Event(type, project, source, ts, level, title, priority) ==
    [type |-> type, project |-> project, source |-> source, ts |-> ts,
     level |-> level, title |-> title, priority |-> priority]

\* classify_priority with the warning of an inactive project raised to low.
classify_priority_warning_low(active, event) ==
    LET is_active == active = Some(event.project)
        level == IF event.level = None THEN "info" ELSE event.level[1]
    IN  IF is_active
        THEN CASE level = "error" -> "critical"
               [] level \in {"success", "warning"} -> "high"
               [] OTHER -> "low"
        ELSE CASE level = "error" -> "high"
               [] level = "success" -> "medium"
               [] level = "warning" -> "low"
               [] OTHER -> "silent"

classify_priority(active, event) ==
    LET is_active == active = Some(event.project)
        level == IF event.level = None THEN "info" ELSE event.level[1]
    IN  IF is_active
        THEN CASE level = "error" -> "critical"
               [] level \in {"success", "warning"} -> "high"
               [] OTHER -> "low"
        ELSE CASE level = "error" -> "high"
               [] level = "success" -> "medium"
               [] OTHER -> "silent"

\* ring_push evicting the newest entry instead of the oldest.
ring_push_pop_back(buffer, event) ==
    LET pushed == Append(buffer, event)
    IN  IF Len(pushed) > buffer_size THEN SubSeq(pushed, 1, Len(pushed) - 1) ELSE pushed

\* buffer.push_back(event); if buffer.len() > buffer_size { buffer.pop_front(); }
ring_push(buffer, event) ==
    LET pushed == Append(buffer, event)
    IN  IF Len(pushed) > buffer_size THEN Tail(pushed) ELSE pushed

\* send_desktop_notification with urgency critical for priority high too.
send_desktop_notification_alarmist(event) ==
    LET priority == IF event.priority = None THEN "low" ELSE event.priority[1]
    IN  CASE priority \in {"critical", "high"} -> <<[ts |-> event.ts, urgency |-> "critical"]>>
          [] priority = "medium" -> <<[ts |-> event.ts, urgency |-> "low"]>>
          [] OTHER -> <<>>

\* The notify-send invocations (none or one) for an event, by --urgency.
send_desktop_notification(event) ==
    LET priority == IF event.priority = None THEN "low" ELSE event.priority[1]
    IN  CASE priority = "critical" -> <<[ts |-> event.ts, urgency |-> "critical"]>>
          [] priority = "high" -> <<[ts |-> event.ts, urgency |-> "normal"]>>
          [] priority = "medium" -> <<[ts |-> event.ts, urgency |-> "low"]>>
          [] OTHER -> <<>>

\* A notify-send invocation together with what the daemon holds when it is
\* made: whether the event is the newest of its ring and of the channel.
Invocation(n, st, event) ==
    [ts |-> n.ts, urgency |-> n.urgency,
     stored |-> /\ event.project \in DOMAIN st.events
                /\ st.events[event.project] # <<>>
                /\ st.events[event.project][Len(st.events[event.project])] = event,
     sent |-> st.tx # <<>> /\ st.tx[Len(st.tx)] = event]

\* assigned_priority keeping a priority the emitter supplied.
assigned_unless_supplied(st, incoming) ==
    IF incoming.priority # None THEN incoming.priority
    ELSE Some(classify_priority(st.active, incoming))

\* The priority process_event sets: always the classification.
assigned_priority(st, incoming) == Some(classify_priority(st.active, incoming))

\* The part of the daemon that process_event reads and writes, as a record:
\* st.active, st.events, st.tx, st.processed, st.notified.
process_event(st, incoming) ==
    LET priority == classify_priority(st.active, incoming)
        event == [incoming EXCEPT !.priority = assigned_priority(st, incoming)]
        key == event.project
        buffer == IF key \in DOMAIN st.events THEN st.events[key] ELSE <<>>
        stored == [p \in DOMAIN st.events \cup {key} |->
                      IF p = key THEN ring_push(buffer, event) ELSE st.events[p]]
        st1 == [st EXCEPT !.events = stored]
        st2 == [st1 EXCEPT !.tx = Append(st.tx, event)]
        invoked == send_desktop_notification(event)
        st3 == IF priority \in {"critical", "high", "medium"}
               THEN [st2 EXCEPT
                        !.notified = @ \o [k \in 1..Len(invoked) |->
                                              Invocation(invoked[k], st2, event)]]
               ELSE st2
    IN  [st3 EXCEPT
            !.processed = Append(st.processed, [active |-> st.active, event |-> event])]

RECURSIVE process_all(_, _)
process_all(st, evs) ==
    IF evs = <<>> THEN st ELSE process_all(process_event(st, Head(evs)), Tail(evs))

\* An event the daemon synthesizes: source "daemon", level info, ts = iso_now().
DaemonEvent(type, project, ts) ==
    Event(type, project, "daemon", ts, Some("info"), None, None)

\* rebuild_workspace_project_map without the known_projects test.
rebuild_any_named(wss, known) ==
    LET mapped == {id \in DOMAIN wss : wss[id].name # None}
    IN  [id \in mapped |-> wss[id].name[1]]

rebuild_workspace_project_map(wss, known) ==
    LET mapped == {id \in DOMAIN wss : wss[id].name # None /\ wss[id].name[1] \in known}
    IN  [id \in mapped |-> wss[id].name[1]]

\* update_active_project leaving active_project as it was.
update_active_project_stale(focused, map) == active_project

update_active_project(focused, map) ==
    IF focused # None /\ focused[1] \in DOMAIN map THEN Some(map[focused[1]]) ELSE None

Owner(active) ==
    [active |-> active, events |-> events, tx |-> subscriber_tx,
     processed |-> processed, notified |-> notified]

\* Write the process_event part of the state back, ts being taken from the clock.
Commit(st, n) ==
    /\ events' = st.events
    /\ subscriber_tx' = st.tx
    /\ processed' = st.processed
    /\ notified' = st.notified
    /\ clock' = clock + n

Room(cap, n) == Len(processed) + n <= cap

\* The events processed so far that came in on the emit socket.
EmitCount == Cardinality({i \in 1..Len(processed) : processed[i].event.source = "cli"})

-----------------------------------------------------------------------------
(* What the compositor and the emitters can send.                          *)

WorkspaceRecs ==
    [name : {None} \cup {Some(n) : n \in Projects}, output : Outputs,
     is_active : BOOLEAN, is_focused : BOOLEAN]

\* A workspaces snapshot of the compositor: workspace names are unique, on
\* every output with workspaces exactly one is active, and (one output, which
\* has the focus) the active workspace is the focused one.
WorkspaceSnapshots ==
    {wss \in UNION {[S -> WorkspaceRecs] : S \in SUBSET WsIds} :
        /\ \A i, j \in DOMAIN wss : (wss[i].name # None /\ wss[i].name = wss[j].name) => i = j
        /\ \A o \in Outputs :
              (\E i \in DOMAIN wss : wss[i].output = o)
                 => Cardinality({i \in DOMAIN wss : wss[i].output = o /\ wss[i].is_active}) = 1
        /\ \A i \in DOMAIN wss : wss[i].is_focused = wss[i].is_active}

\* The snapshots of a session whose workspaces 1 and 2 carry the two projects.
ProjectSnapshots ==
    {wss \in WorkspaceSnapshots :
        /\ DOMAIN wss = WsIds
        /\ wss[1].name = Some("alpha") /\ wss[2].name = Some("beta")}

\* Windows on any workspace or none, and windows on workspace 1 only.
WindowRecs == [workspace_id : {None} \cup {Some(i) : i \in WsIds}, is_focused : BOOLEAN]

WindowRecsOn1 == [workspace_id : {Some(1)}, is_focused : BOOLEAN]

WindowSnapshots(recs) == UNION {[S -> recs] : S \in SUBSET WinIds}

\* drift_core::registry::list_projects(): an error, or the registered names.
RegistryResults ==
    {[ok |-> FALSE, names |-> {}], [ok |-> TRUE, names |-> {"alpha"}],
     [ok |-> TRUE, names |-> Projects]}

RegistryComplete == {[ok |-> TRUE, names |-> Projects]}

\* What the emit listener forwards: ts stamped, level present.  These emitters
\* all supply a priority of their own.
EmittedPriorities == {Some("bogus"), Some("critical")}

EmittedEvents(ts) ==
    {Event("build.done", p, "cli", ts, Some(l), None, pr) :
        p \in Projects, l \in Levels, pr \in EmittedPriorities}

\* An emitter that sends events the announcer speaks (SPEAKABLE_EVENTS).
EmittedSpeakable(ts) ==
    {Event("agent.completed", "alpha", "cli", ts, Some("info"), None, None)}

\* An emitter that sends info events of one project only.
EmittedInfo(ts) ==
    {Event("build.done", "alpha", "cli", ts, Some("info"), None, None)}

-----------------------------------------------------------------------------
(* The state owner: DaemonInner.                                           *)

DaemonInit ==
    /\ workspaces = <<>>
    /\ windows = <<>>
    /\ workspace_to_project = <<>>
    /\ known_projects \in SUBSET Projects
    /\ active_project = None
    /\ focused_workspace_id = None
    /\ events = <<>>
    /\ subscriber_tx = <<>>
    /\ clock = 1
    /\ processed = <<>>
    /\ notified = <<>>

\* A daemon started with an empty project registry.
DaemonFresh == DaemonInit /\ known_projects = {}

handle_emit_event(emitted, emit_cap, cap) ==
    /\ Room(cap, 1)
    /\ EmitCount < emit_cap
    /\ Commit(process_event(Owner(active_project), emitted), 1)
    /\ UNCHANGED <<outsideDaemon, workspaces, windows, workspace_to_project, known_projects,
                   active_project, focused_workspace_id>>

WorkspacesChanged(snapshot, registry, cap) ==
    LET old_projects == Range(workspace_to_project)
        known == IF registry.ok THEN registry.names ELSE known_projects
        map == rebuild_workspace_project_map(snapshot, known)
        new_projects == Range(map)
        created == new_projects \ old_projects
        destroyed == old_projects \ new_projects
        n == Cardinality(created) + Cardinality(destroyed)
    IN  /\ Room(cap, n)
        /\ \E co \in Orders(created), do \in Orders(destroyed) :
              LET evs == [i \in 1..n |->
                             IF i <= Len(co)
                             THEN DaemonEvent("workspace.created", co[i], clock + i - 1)
                             ELSE DaemonEvent("workspace.destroyed", do[i - Len(co)],
                                              clock + i - 1)]
              IN  Commit(process_all(Owner(active_project), evs), n)
        /\ workspaces' = snapshot
        /\ known_projects' = known
        /\ workspace_to_project' = map
        /\ active_project' = update_active_project(focused_workspace_id, map)
        /\ UNCHANGED <<outsideDaemon, windows, focused_workspace_id>>

WorkspaceActivated(id, focused, cap) ==
    LET prev == focused_workspace_id
        deactivated ==
            IF /\ focused
               /\ prev # None
               /\ prev[1] # id
               /\ prev[1] \in DOMAIN workspace_to_project
            THEN <<DaemonEvent("workspace.deactivated", workspace_to_project[prev[1]], clock)>>
            ELSE <<>>
        st1 == process_all(Owner(active_project), deactivated)
        on_output == IF id \in DOMAIN workspaces
                     THEN {i \in DOMAIN workspaces :
                              workspaces[i].output = workspaces[id].output}
                     ELSE {}
        wss1 == [i \in DOMAIN workspaces |->
                    IF i \in on_output
                    THEN [workspaces[i] EXCEPT
                             !.is_active = (i = id),
                             !.is_focused = IF focused THEN i = id ELSE @]
                    ELSE workspaces[i]]
        wss2 == IF focused
                THEN [i \in DOMAIN wss1 |->
                         IF i # id THEN [wss1[i] EXCEPT !.is_focused = FALSE] ELSE wss1[i]]
                ELSE wss1
        active == IF focused
                  THEN update_active_project(Some(id), workspace_to_project)
                  ELSE active_project
        activated ==
            IF focused /\ id \in DOMAIN workspace_to_project
            THEN <<DaemonEvent("workspace.activated", workspace_to_project[id],
                               clock + Len(deactivated))>>
            ELSE <<>>
        st2 == process_all([st1 EXCEPT !.active = active], activated)
    IN  /\ Room(cap, Len(deactivated) + Len(activated))
        /\ Commit(st2, Len(deactivated) + Len(activated))
        /\ workspaces' = wss2
        /\ focused_workspace_id' = IF focused THEN Some(id) ELSE focused_workspace_id
        /\ active_project' = active
        /\ UNCHANGED <<outsideDaemon, windows, workspace_to_project, known_projects>>

WindowsChanged(snapshot) ==
    /\ windows' = snapshot
    /\ UNCHANGED <<outsideDaemon, workspaces, workspace_to_project, known_projects,
                   active_project, focused_workspace_id, events, subscriber_tx, clock,
                   processed, notified>>

WindowOpenedOrChanged(id, window) ==
    /\ windows' = [w \in DOMAIN windows \cup {id} |-> IF w = id THEN window ELSE windows[w]]
    /\ UNCHANGED <<outsideDaemon, workspaces, workspace_to_project, known_projects,
                   active_project, focused_workspace_id, events, subscriber_tx, clock,
                   processed, notified>>

WindowClosed(id) ==
    /\ windows' = [w \in DOMAIN windows \ {id} |-> windows[w]]
    /\ UNCHANGED <<outsideDaemon, workspaces, workspace_to_project, known_projects,
                   active_project, focused_workspace_id, events, subscriber_tx, clock,
                   processed, notified>>

WindowFocusChanged(id) ==
    /\ windows' = [w \in DOMAIN windows |-> [windows[w] EXCEPT !.is_focused = (Some(w) = id)]]
    /\ UNCHANGED <<outsideDaemon, workspaces, workspace_to_project, known_projects,
                   active_project, focused_workspace_id, events, subscriber_tx, clock,
                   processed, notified>>

\* The WindowUrgencyChanged arm without the is_active test.
WindowUrgencyChanged_any_project(id, urgent, cap) ==
    LET raised ==
            /\ urgent
            /\ id \in DOMAIN windows
            /\ windows[id].workspace_id # None
            /\ windows[id].workspace_id[1] \in DOMAIN workspace_to_project
        evs == IF raised
               THEN <<Event("window.urgent",
                            workspace_to_project[windows[id].workspace_id[1]], "window",
                            clock, Some("warning"), Some("Window needs attention"), None)>>
               ELSE <<>>
    IN  /\ Room(cap, Len(evs))
        /\ Commit(process_all(Owner(active_project), evs), Len(evs))
        /\ UNCHANGED <<outsideDaemon, workspaces, windows, workspace_to_project,
                       known_projects, active_project, focused_workspace_id>>

WindowUrgencyChanged(id, urgent, cap) ==
    LET raised ==
            /\ urgent
            /\ id \in DOMAIN windows
            /\ windows[id].workspace_id # None
            /\ windows[id].workspace_id[1] \in DOMAIN workspace_to_project
            /\ active_project # Some(workspace_to_project[windows[id].workspace_id[1]])
        evs == IF raised
               THEN <<Event("window.urgent",
                            workspace_to_project[windows[id].workspace_id[1]], "window",
                            clock, Some("warning"), Some("Window needs attention"), None)>>
               ELSE <<>>
    IN  /\ Room(cap, Len(evs))
        /\ Commit(process_all(Owner(active_project), evs), Len(evs))
        /\ UNCHANGED <<outsideDaemon, workspaces, windows, workspace_to_project,
                       known_projects, active_project, focused_workspace_id>>

\* Any other compositor event: the `_ => {}` arm.
OtherNiriEvent ==
    /\ UNCHANGED vars

\* The window arms of handle_niri_event.
WindowEvents(recs, cap) ==
    \/ \E snapshot \in WindowSnapshots(recs) : WindowsChanged(snapshot)
    \/ \E id \in WinIds, window \in recs : WindowOpenedOrChanged(id, window)
    \/ \E id \in WinIds : WindowClosed(id)
    \/ \E id \in {None} \cup {Some(w) : w \in WinIds} : WindowFocusChanged(id)
    \/ \E id \in WinIds, urgent \in BOOLEAN : WindowUrgencyChanged(id, urgent, cap)

-----------------------------------------------------------------------------
(* The subscriber manager: run_subscriber_manager.                         *)

Conns == {1, 2}

SubInit ==
    /\ sub_pc = "accept"
    /\ sub_received = 0
    /\ pending = <<>>
    /\ subscribers = <<>>
    /\ replay_buffer = <<>>
    /\ lines = <<>>
    /\ peer_open = <<>>
    /\ accepted_at = <<>>

\* replay_buffer.push_back(event) evicting the newest entry on overflow.
replay_push_pop_back(buffer, event) ==
    LET pushed == Append(buffer, event)
    IN  IF Len(pushed) > replay_count THEN SubSeq(pushed, 1, Len(pushed) - 1) ELSE pushed

\* replay_buffer.push_back(event);
\* if replay_buffer.len() > replay_count { replay_buffer.pop_front(); }
replay_push(buffer, event) ==
    LET pushed == Append(buffer, event)
    IN  IF Len(pushed) > replay_count THEN Tail(pushed) ELSE pushed

\* writeln!(stream, ..) succeeds as long as the peer reads.
write_ok(c) == peer_open[c]

\* A client connects to the subscribe socket.
Connect(c) ==
    /\ c \notin DOMAIN lines
    /\ pending' = Append(pending, c)
    /\ lines' = [d \in DOMAIN lines \cup {c} |-> IF d = c THEN <<>> ELSE lines[d]]
    /\ peer_open' = [d \in DOMAIN peer_open \cup {c} |-> IF d = c THEN TRUE ELSE peer_open[d]]
    /\ UNCHANGED <<outsideSubscribers, sub_pc, sub_received, subscribers, replay_buffer,
                   accepted_at>>

\* The peer of a connection stops reading (it closes, or it stalls for good).
PeerCloses(c) ==
    /\ c \in DOMAIN peer_open
    /\ peer_open[c]
    /\ peer_open' = [peer_open EXCEPT ![c] = FALSE]
    /\ UNCHANGED <<outsideSubscribers, sub_pc, sub_received, pending, subscribers,
                   replay_buffer, lines, accepted_at>>

\* listener.accept() returns a stream: write the replay buffer to it, stopping
\* at the first write that fails, and keep the stream if none failed.
SubAccept ==
    /\ sub_pc = "accept"
    /\ pending # <<>>
    /\ LET c == Head(pending)
           alive == replay_buffer = <<>> \/ write_ok(c)
       IN  /\ pending' = Tail(pending)
           /\ lines' = [lines EXCEPT ![c] = IF write_ok(c) THEN @ \o replay_buffer ELSE @]
           /\ subscribers' = IF alive THEN Append(subscribers, c) ELSE subscribers
           /\ accepted_at' = [d \in DOMAIN accepted_at \cup {c} |->
                                 IF d = c THEN sub_received ELSE accepted_at[d]]
    /\ UNCHANGED <<outsideSubscribers, sub_pc, sub_received, replay_buffer, peer_open>>

\* listener.accept() would block: on to the receive loop.
SubAcceptDone ==
    /\ sub_pc = "accept"
    /\ pending = <<>>
    /\ sub_pc' = "recv"
    /\ UNCHANGED <<outsideSubscribers, sub_received, pending, subscribers, replay_buffer,
                   lines, peer_open, accepted_at>>

\* The fan-out without the retain: every stream is kept, written or not.
SubRecv_retaining_all ==
    /\ sub_pc = "recv"
    /\ sub_received < Len(subscriber_tx)
    /\ LET event == subscriber_tx[sub_received + 1]
       IN  /\ sub_received' = sub_received + 1
           /\ replay_buffer' = replay_push(replay_buffer, event)
           /\ lines' = [c \in DOMAIN lines |->
                           IF c \in Range(subscribers) /\ write_ok(c)
                           THEN Append(lines[c], event) ELSE lines[c]]
    /\ UNCHANGED <<outsideSubscribers, sub_pc, pending, peer_open, accepted_at, subscribers>>

\* rx.try_recv() returns an event: into the replay buffer, then a line to
\* every subscriber, retaining those whose write succeeded.
SubRecv ==
    /\ sub_pc = "recv"
    /\ sub_received < Len(subscriber_tx)
    /\ LET event == subscriber_tx[sub_received + 1]
           is_ok(c) == write_ok(c)
       IN  /\ sub_received' = sub_received + 1
           /\ replay_buffer' = replay_push(replay_buffer, event)
           /\ lines' = [c \in DOMAIN lines |->
                           IF c \in Range(subscribers) /\ write_ok(c)
                           THEN Append(lines[c], event) ELSE lines[c]]
           /\ subscribers' = SelectSeq(subscribers, is_ok)
    /\ UNCHANGED <<outsideSubscribers, sub_pc, pending, peer_open, accepted_at>>

\* rx.try_recv() finds the channel empty: sleep, then back to the accept loop.
SubRecvEmpty ==
    /\ sub_pc = "recv"
    /\ sub_received = Len(subscriber_tx)
    /\ sub_pc' = "accept"
    /\ UNCHANGED <<outsideSubscribers, sub_received, pending, subscribers, replay_buffer,
                   lines, peer_open, accepted_at>>

run_subscriber_manager == SubAccept \/ SubAcceptDone \/ SubRecv \/ SubRecvEmpty

\* The announcer as the client of the subscribe socket: run_commander
\* connects, reads every line of its connection, and after end of file or a
\* read error leaves the connection and connects again.  Its connections are
\* numbered in the order it makes them.
AnnouncerConnects(c) ==
    /\ \A d \in Conns : d < c => (d \in DOMAIN peer_open /\ ~peer_open[d])
    /\ Connect(c)

\* The announcer's connection ends: the read error path, or the manager has
\* dropped it for a write that timed out.
AnnouncerLeaves(c) == PeerCloses(c)

-----------------------------------------------------------------------------
(* One call of classify_priority on inputs of every shape.                 *)

ClassifyActives == {None} \cup {Some(p) : p \in Projects}

ClassifyEvents ==
    [type : {"build.done", "window.urgent"}, project : Projects, source : {"cli"},
     ts : {1, 2}, level : {None} \cup {Some(l) : l \in Levels},
     title : {None, Some("t")},
     priority : {None, Some("bogus"), Some("critical")}]

ClassifyIdle == classify_call = None

ClassifyInit ==
    classify_call \in [active : ClassifyActives, event : ClassifyEvents, result : {None}]

Classify ==
    /\ classify_call # None
    /\ classify_call.result = None
    /\ classify_call' =
          [classify_call EXCEPT
              !.result = Some(classify_priority(classify_call.active, classify_call.event))]
    /\ UNCHANGED outsideClassify

-----------------------------------------------------------------------------
(* The process supervisor: run_supervisor.                                 *)
(* Instants are not modelled: whether a child lived 5 s, and whether the   *)
(* backoff has elapsed since last_exit, are choices of the environment.    *)

RestartPolicies == {"always", "on-failure", "never"}

\* What try_wait can return for a child: still running, an exit status
\* (success with code 0, failure with code 1, killed by a signal: no code),
\* or an error.
ExitStatuses ==
    {[success |-> TRUE, code |-> Some(0)], [success |-> FALSE, code |-> Some(1)],
     [success |-> FALSE, code |-> None]}

Min(a, b) == IF a <= b THEN a ELSE b
Max(a, b) == IF a >= b THEN a ELSE b

\* should_restart taking on-failure as always.
should_restart_on_any_exit(policy, exit_status) ==
    CASE policy = "always" -> TRUE
      [] policy = "on-failure" -> TRUE
      [] policy = "never" -> FALSE

should_restart(policy, exit_status) ==
    CASE policy = "always" -> TRUE
      [] policy = "on-failure" -> ~exit_status.success
      [] policy = "never" -> FALSE

\* next_backoff without the 30 s ceiling.
next_backoff_uncapped(backoff) == Max(backoff * 2, 1)

\* (svc.backoff * 2).max(Duration::from_secs(1)).min(Duration::from_secs(30))
next_backoff(backoff) == Min(Max(backoff * 2, 1), 30)

\* The identifier of the next child of service i.
FreshPid(i) == 100 * i + spawn_count[i] + 1

ManagedService(child, pid, status) ==
    [child |-> child, pid |-> pid, status |-> status, restart_count |-> 0,
     exit_code |-> None, backoff |-> 0]

\* ServiceState as write_state serializes it.
ServiceState(svc) ==
    [pid |-> svc.pid, status |-> svc.status, restart_count |-> svc.restart_count,
     exit_code |-> svc.exit_code]

\* write_state leaving the exit codes out.
write_state_without_exit_code(svcs) ==
    Some([i \in DOMAIN svcs |-> [ServiceState(svcs[i]) EXCEPT !.exit_code = None]])

write_state(svcs) == Some([i \in DOMAIN svcs |-> ServiceState(svcs[i])])

\* Terminal taking only stopped services.
Terminal_stopped_only(svc) == svc.status = "stopped"

Terminal(svc) == svc.status \in {"stopped", "failed"}

SupInitWith(configs) ==
    /\ sup_pc = "spawn"
    /\ sup_idx = 1
    /\ sup_config \in configs
    /\ services = <<>>
    /\ state_changed = FALSE
    /\ SHUTDOWN = FALSE
    /\ published = None
    /\ spawn_count = [i \in DOMAIN sup_config |-> 0]
    /\ short_exits = [i \in DOMAIN sup_config |-> 0]
    /\ ran_for = [i \in DOMAIN sup_config |-> "none"]

\* SIGTERM or SIGINT arrives: handle_signal.
handle_signal ==
    /\ sup_pc # "done"
    /\ ~SHUTDOWN
    /\ SHUTDOWN' = TRUE
    /\ UNCHANGED <<outsideSupervisor, sup_pc, sup_idx, sup_config, services, state_changed,
                   published, spawn_count, short_exits, ran_for>>

\* One round of the initial `for proc in processes`: spawn_service succeeds
\* or fails.
InitialSpawn ==
    /\ sup_pc = "spawn"
    /\ \E spawn_ok \in BOOLEAN :
          /\ services' =
                Append(services,
                       IF spawn_ok
                       THEN ManagedService(Some(FreshPid(sup_idx)), Some(FreshPid(sup_idx)),
                                           "running")
                       ELSE ManagedService(None, None, "failed"))
          /\ spawn_count' = [spawn_count EXCEPT ![sup_idx] = IF spawn_ok THEN @ + 1 ELSE @]
    /\ IF sup_idx = Len(sup_config)
       THEN sup_pc' = "publish" /\ sup_idx' = 1
       ELSE sup_pc' = "spawn" /\ sup_idx' = sup_idx + 1
    /\ UNCHANGED <<outsideSupervisor, sup_config, state_changed, SHUTDOWN, published,
                   short_exits, ran_for>>

\* write_state(&services, project_name) before the loop.
InitialPublish ==
    /\ sup_pc = "publish"
    /\ published' = write_state(services)
    /\ sup_pc' = "top"
    /\ UNCHANGED <<outsideSupervisor, sup_idx, sup_config, services, state_changed,
                   SHUTDOWN, spawn_count, short_exits, ran_for>>

\* shutdown_service marking only the services that held a child.
shutdown_service_children_only(svc) ==
    IF svc.child # None THEN [svc EXCEPT !.child = None, !.status = "stopped"] ELSE svc

\* Phase 3 of graceful_shutdown on one service: a service that still holds a
\* child is killed and reaped and loses the child; every service becomes
\* stopped.
shutdown_service(svc) ==
    [svc EXCEPT !.child = None, !.status = "stopped"]

\* The top of the loop with SHUTDOWN set: graceful_shutdown, then break.
GracefulShutdown ==
    /\ sup_pc = "top"
    /\ SHUTDOWN
    /\ services' = [i \in DOMAIN services |-> shutdown_service(services[i])]
    /\ published' = write_state(services')
    /\ sup_pc' = "done"
    /\ UNCHANGED <<outsideSupervisor, sup_idx, sup_config, state_changed, SHUTDOWN,
                   spawn_count, short_exits, ran_for>>

\* The top of the loop otherwise: state_changed = false, into the for loop.
LoopTop ==
    /\ sup_pc = "top"
    /\ ~SHUTDOWN
    /\ state_changed' = FALSE
    /\ sup_idx' = 1
    /\ sup_pc' = "svc"
    /\ UNCHANGED <<outsideSupervisor, sup_config, services, SHUTDOWN, published,
                   spawn_count, short_exits, ran_for>>

\* respawned counting the failed attempts too.
respawned_counting_failures(svc, i, spawn_ok) ==
    IF spawn_ok
    THEN [svc EXCEPT !.restart_count = @ + 1, !.pid = Some(FreshPid(i)),
                     !.child = Some(FreshPid(i)), !.status = "running"]
    ELSE [svc EXCEPT !.restart_count = @ + 1, !.status = "failed"]

\* respawned resetting the backoff when the spawn succeeds.
respawned_resetting_backoff(svc, i, spawn_ok) ==
    IF spawn_ok
    THEN [svc EXCEPT !.restart_count = @ + 1, !.pid = Some(FreshPid(i)),
                     !.child = Some(FreshPid(i)), !.status = "running", !.backoff = 0]
    ELSE [svc EXCEPT !.status = "failed"]

\* The outcome of a respawn (either arm that calls spawn_service).
respawned(svc, i, spawn_ok) ==
    IF spawn_ok
    THEN [svc EXCEPT !.restart_count = @ + 1, !.pid = Some(FreshPid(i)),
                     !.child = Some(FreshPid(i)), !.status = "running"]
    ELSE [svc EXCEPT !.status = "failed"]

\* The Running arm when try_wait returns Ok(Some(exit_status)).
on_exit(svc, i, policy, exit_status, lived_long, spawn_ok) ==
    LET exited == [svc EXCEPT !.exit_code = exit_status.code, !.child = None, !.pid = None]
    IN  IF should_restart(policy, exit_status)
        THEN IF ~lived_long
             THEN [exited EXCEPT !.backoff = next_backoff(@), !.status = "backoff"]
             ELSE respawned([exited EXCEPT !.backoff = 0], i, spawn_ok)
        ELSE IF exit_status.success
             THEN [exited EXCEPT !.status = "stopped"]
             ELSE [exited EXCEPT !.status = "failed"]

\* The Running arm when try_wait returns Err(_).
on_wait_error(svc) == [svc EXCEPT !.child = None, !.pid = None, !.status = "failed"]

\* Moves the for loop to the next service, or to the end of the iteration.
Advance ==
    IF sup_idx = Len(services)
    THEN sup_pc' = "end" /\ sup_idx' = 1
    ELSE sup_pc' = "svc" /\ sup_idx' = sup_idx + 1

\* A running service whose child has not exited: Ok(None).
StillRunning ==
    /\ sup_pc = "svc"
    /\ services[sup_idx].status = "running"
    /\ Advance
    /\ UNCHANGED <<outsideSupervisor, sup_config, services, state_changed, SHUTDOWN,
                   published, spawn_count, short_exits, ran_for>>

\* A running service whose child has exited.  spawn_service is called only
\* for an exit that should restart after 5 s or more, so spawn_ok is a choice
\* in that case alone; at most cap respawns of a service succeed.
ChildExited(cap) ==
    /\ sup_pc = "svc"
    /\ services[sup_idx].status = "running"
    /\ \E exit_status \in ExitStatuses, lived_long \in BOOLEAN, spawn_ok \in BOOLEAN :
          LET i == sup_idx
              svc == services[i]
              policy == sup_config[i].restart
              restart == should_restart(policy, exit_status)
              spawns == restart /\ lived_long /\ spawn_ok
          IN  /\ spawns => svc.restart_count < cap
              /\ (~(restart /\ lived_long)) => spawn_ok
              /\ services' = [services EXCEPT
                                 ![i] = on_exit(svc, i, policy, exit_status, lived_long,
                                                spawn_ok)]
              /\ spawn_count' = [spawn_count EXCEPT ![i] = IF spawns THEN @ + 1 ELSE @]
              /\ short_exits' = [short_exits EXCEPT
                                    ![i] = IF restart
                                           THEN (IF lived_long THEN 0 ELSE @ + 1)
                                           ELSE @]
              /\ ran_for' = [ran_for EXCEPT ![i] = IF lived_long THEN "long" ELSE "short"]
    /\ state_changed' = TRUE
    /\ Advance
    /\ UNCHANGED <<outsideSupervisor, sup_config, SHUTDOWN, published>>

\* A running service whose liveness cannot be read.
WaitError ==
    /\ sup_pc = "svc"
    /\ services[sup_idx].status = "running"
    /\ services' = [services EXCEPT ![sup_idx] = on_wait_error(@)]
    /\ state_changed' = TRUE
    /\ Advance
    /\ UNCHANGED <<outsideSupervisor, sup_config, SHUTDOWN, published, spawn_count,
                   short_exits, ran_for>>

\* The Backoff arm taking failed services too.
in_backoff_or_failed_arm(svc) == svc.status \in {"backoff", "failed"}

\* ServiceStatus::Backoff => ..
in_backoff_arm(svc) == svc.status = "backoff"

\* A service in backoff whose backoff has not elapsed since last_exit.
BackoffWaits ==
    /\ sup_pc = "svc"
    /\ in_backoff_arm(services[sup_idx])
    /\ services[sup_idx].backoff > 0
    /\ Advance
    /\ UNCHANGED <<outsideSupervisor, sup_config, services, state_changed, SHUTDOWN,
                   published, spawn_count, short_exits, ran_for>>

\* A service in backoff whose backoff has elapsed: spawn_service (at most cap
\* respawns of a service succeed).
BackoffElapsed(cap) ==
    /\ sup_pc = "svc"
    /\ in_backoff_arm(services[sup_idx])
    /\ \E spawn_ok \in BOOLEAN :
          /\ spawn_ok => services[sup_idx].restart_count < cap
          /\ services' = [services EXCEPT ![sup_idx] = respawned(@, sup_idx, spawn_ok)]
          /\ spawn_count' = [spawn_count EXCEPT ![sup_idx] = IF spawn_ok THEN @ + 1 ELSE @]
    /\ state_changed' = TRUE
    /\ Advance
    /\ UNCHANGED <<outsideSupervisor, sup_config, SHUTDOWN, published, short_exits, ran_for>>

\* ServiceStatus::Stopped | ServiceStatus::Failed => {}
TerminalSkipped ==
    /\ sup_pc = "svc"
    /\ Terminal(services[sup_idx])
    /\ Advance
    /\ UNCHANGED <<outsideSupervisor, sup_config, services, state_changed, SHUTDOWN,
                   published, spawn_count, short_exits, ran_for>>

\* After the for loop: write_state if state_changed; break if every service
\* is stopped or failed; else sleep and go round again.
LoopEnd ==
    /\ sup_pc = "end"
    /\ published' = IF state_changed THEN write_state(services) ELSE published
    /\ sup_pc' = IF \A i \in DOMAIN services : Terminal(services[i]) THEN "done" ELSE "top"
    /\ UNCHANGED <<outsideSupervisor, sup_idx, sup_config, services, state_changed,
                   SHUTDOWN, spawn_count, short_exits, ran_for>>

run_supervisor(cap) ==
    \/ InitialSpawn
    \/ InitialPublish
    \/ GracefulShutdown
    \/ LoopTop
    \/ StillRunning
    \/ ChildExited(cap)
    \/ WaitError
    \/ BackoffWaits
    \/ BackoffElapsed(cap)
    \/ TerminalSkipped
    \/ LoopEnd


-----------------------------------------------------------------------------
(* graceful_shutdown phase by phase, with instants in milliseconds.        *)

\* thread::sleep at the end of a loop iteration; the wait of phase 2 and
\* its polling sleep.
tick_ms == 500
shutdown_wait_ms == 5000
poll_ms == 100

\* The supervisor without instants: the specifications above.
TimedIdle ==
    /\ sup_now = 0
    /\ signal_at = None
    /\ deadline = 0
    /\ sent = <<>>
    /\ proc = <<>>
    /\ pid_file = TRUE
    /\ started_at = <<>>
    /\ last_exit = <<>>
    /\ restarted = <<>>
    /\ sup_events = <<>>

\* spawn_service: svc_cwd, as the path below repo_path.
svc_cwd(cwd) == IF cwd \in {"", "."} THEN <<>> ELSE <<cwd>>
repo_path == <<>>

\* A stop command run by sh -c in a directory, or a signal sent to the
\* process group of pid; running says whether the child had not exited.
StopCommandRun(i, cwd, at, running) ==
    [what |-> "stop_command", svc |-> i, cwd |-> cwd, at |-> at, running |-> running]
SignalSent(sig, i, pid, at, running) ==
    [what |-> sig, svc |-> i, group |-> pid, at |-> at, running |-> running]

\* The supervisor in the sleep that ends an iteration, with its services as
\* an iteration can leave them, the children of running services exited or
\* not, the pid file written.
ShutdownInitWith(configs, records) ==
    /\ sup_pc = "asleep"
    /\ sup_idx = 1
    /\ sup_config \in configs
    /\ services \in [DOMAIN sup_config -> records]
    /\ \A i \in DOMAIN sup_config :
          services[i].pid # None => services[i].pid = Some(100 * i + 1)
    /\ state_changed = FALSE
    /\ SHUTDOWN = FALSE
    /\ published = write_state(services)
    /\ spawn_count = [i \in DOMAIN sup_config |-> 1]
    /\ short_exits = [i \in DOMAIN sup_config |-> 0]
    /\ ran_for = [i \in DOMAIN sup_config |-> "none"]
    /\ sup_now = 0
    /\ signal_at = None
    /\ deadline = 0
    /\ sent = <<>>
    /\ proc \in [DOMAIN sup_config -> {"alive", "exited", "none"}]
    /\ \A i \in DOMAIN sup_config : (proc[i] = "none") = (services[i].child = None)
    /\ pid_file = TRUE
    /\ started_at = [i \in DOMAIN sup_config |-> None]
    /\ last_exit = [i \in DOMAIN sup_config |-> None]
    /\ restarted = <<>>
    /\ sup_events = <<>>

\* SIGTERM or SIGINT arrives during the sleep: handle_signal.
SignalInSleep ==
    /\ sup_pc = "asleep"
    /\ ~SHUTDOWN
    /\ SHUTDOWN' = TRUE
    /\ signal_at' = Some(sup_now)
    /\ UNCHANGED <<outsideTimedSupervisor, sup_pc, sup_idx, sup_config, services,
                   state_changed, published, spawn_count, short_exits, ran_for,
                   sup_now, deadline, sent, proc, pid_file, started_at, last_exit,
                   restarted, sup_events>>

\* The rest of the sleep passes (SA_RESTART: the sleep is not cut short).
SleepEnds(dt) ==
    /\ sup_pc = "asleep"
    /\ SHUTDOWN
    /\ sup_now' = sup_now + dt
    /\ sup_pc' = "top"
    /\ UNCHANGED <<outsideTimedSupervisor, sup_idx, sup_config, services, state_changed,
                   SHUTDOWN, published, spawn_count, short_exits, ran_for, signal_at,
                   deadline, sent, proc, pid_file, started_at, last_exit, restarted, sup_events>>

\* The child of a service exits, by itself or stopped or signalled.
ChildDies ==
    /\ sup_pc # "done"
    /\ \E i \in DOMAIN proc :
          /\ proc[i] = "alive"
          /\ proc' = [proc EXCEPT ![i] = "exited"]
    /\ UNCHANGED <<outsideTimedSupervisor, supVars, sup_now, signal_at, deadline, sent,
                   pid_file, started_at, last_exit, restarted, sup_events>>

\* The top of the loop with SHUTDOWN set: graceful_shutdown is entered.
ShutdownNoticed ==
    /\ sup_pc = "top"
    /\ SHUTDOWN
    /\ sup_pc' = "phase1"
    /\ sup_idx' = 1
    /\ UNCHANGED <<outsideTimedSupervisor, sup_config, services, state_changed, SHUTDOWN,
                   published, spawn_count, short_exits, ran_for, timedVars>>

\* Phase 1 on one service: a service holding a child has its stop_command
\* run (status() returns when the command ends, took ms later) or else its
\* process group sent SIGTERM.  After the last service the deadline is set.
Phase1(durations) ==
    /\ sup_pc = "phase1"
    /\ LET i == sup_idx
           svc == services[i]
           running == proc[i] = "alive"
       IN  \E took \in durations :
              /\ IF svc.child # None /\ sup_config[i].stop_command # None
                 THEN /\ sent' = Append(sent, StopCommandRun(i, repo_path, sup_now, running))
                      /\ sup_now' = sup_now + took
                 ELSE /\ took = 0
                      /\ sup_now' = sup_now
                      /\ sent' = IF svc.child # None /\ svc.pid # None
                                 THEN Append(sent, SignalSent("SIGTERM", i, svc.pid[1],
                                                              sup_now, running))
                                 ELSE sent
              /\ IF i = Len(services)
                 THEN /\ sup_pc' = "phase2"
                      /\ sup_idx' = 1
                      /\ deadline' = sup_now' + shutdown_wait_ms
                 ELSE /\ sup_pc' = "phase1"
                      /\ sup_idx' = i + 1
                      /\ deadline' = deadline
    /\ UNCHANGED <<outsideTimedSupervisor, sup_config, services, state_changed, SHUTDOWN,
                   published, spawn_count, short_exits, ran_for, signal_at, proc,
                   pid_file, started_at, last_exit, restarted, sup_events>>

\* services.iter_mut().all(..) of phase 2: try_wait on the children in order
\* up to the first that has not exited; an exited child is reaped by it.
Unexited == {i \in DOMAIN services : services[i].child # None /\ proc[i] = "alive"}
all_exited == Unexited = {}
after_try_wait ==
    [i \in DOMAIN proc |->
        IF proc[i] = "exited" /\ \A j \in Unexited : i < j THEN "reaped" ELSE proc[i]]

\* One round of the loop of phase 2.
Phase2 ==
    /\ sup_pc = "phase2"
    /\ proc' = after_try_wait
    /\ IF all_exited \/ sup_now >= deadline
       THEN sup_pc' = "phase3" /\ sup_idx' = 1 /\ sup_now' = sup_now
       ELSE sup_pc' = "phase2" /\ sup_idx' = sup_idx /\ sup_now' = sup_now + poll_ms
    /\ UNCHANGED <<outsideTimedSupervisor, sup_config, services, state_changed, SHUTDOWN,
                   published, spawn_count, short_exits, ran_for, signal_at, deadline,
                   sent, pid_file, started_at, last_exit, restarted, sup_events>>

\* Phase 3 on one service: the process group of a child still held is sent
\* SIGKILL and the child waited for; the service becomes stopped.
Phase3 ==
    /\ sup_pc = "phase3"
    /\ LET i == sup_idx
           svc == services[i]
       IN  /\ sent' = IF svc.child # None /\ svc.pid # None
                      THEN Append(sent, SignalSent("SIGKILL", i, svc.pid[1], sup_now,
                                                   proc[i] = "alive"))
                      ELSE sent
           /\ proc' = [proc EXCEPT ![i] = IF svc.child # None THEN "reaped" ELSE @]
           /\ services' = [services EXCEPT ![i] = shutdown_service(svc)]
           /\ IF i = Len(services)
              THEN sup_pc' = "write_state" /\ sup_idx' = 1
              ELSE sup_pc' = "phase3" /\ sup_idx' = i + 1
    /\ UNCHANGED <<outsideTimedSupervisor, sup_config, state_changed, SHUTDOWN, published,
                   spawn_count, short_exits, ran_for, sup_now, signal_at, deadline,
                   pid_file, started_at, last_exit, restarted, sup_events>>

\* write_state(services, project)
ShutdownWritesState ==
    /\ sup_pc = "write_state"
    /\ published' = write_state(services)
    /\ sup_pc' = "remove_file"
    /\ UNCHANGED <<outsideTimedSupervisor, sup_idx, sup_config, services, state_changed,
                   SHUTDOWN, spawn_count, short_exits, ran_for, timedVars>>

\* fs::remove_file(paths::supervisor_pid_path(project)), then break.
ShutdownRemovesPidFile ==
    /\ sup_pc = "remove_file"
    /\ pid_file' = FALSE
    /\ sup_pc' = "done"
    /\ UNCHANGED <<outsideTimedSupervisor, sup_idx, sup_config, services, state_changed,
                   SHUTDOWN, published, spawn_count, short_exits, ran_for, sup_now,
                   signal_at, deadline, sent, proc, started_at, last_exit, restarted, sup_events>>

graceful_shutdown(durations) ==
    \/ Phase1(durations)
    \/ Phase2
    \/ Phase3
    \/ ShutdownWritesState
    \/ ShutdownRemovesPidFile


-----------------------------------------------------------------------------
(* The loop of run_supervisor with instants in milliseconds, for services  *)
(* whose spawns succeed.                                                   *)

\* ran_for < Duration::from_secs(5)
short_run_ms == 5000

\* service.restarted as emitted at an instant, with the time since last_exit
\* and the backoff (in seconds) that the spawn waited for.
Restarted(i, at, waited, backoff) ==
    [svc |-> i, at |-> at, waited |-> waited, backoff |-> backoff]

\* An event as the supervisor emits it (try_emit_event), source the service.
SupEvent(type, i, meta) == [type |-> type, svc |-> i, meta |-> meta]

\* service.restarted of a service just respawned.
restarted_event(i, svc) ==
    SupEvent("service.restarted", i, [pid |-> svc.pid, restart_count |-> svc.restart_count])

\* The events of the Running arm for an exit, after being the service then:
\* service.restarted when it was respawned at once, nothing when a restart is
\* due otherwise, service.stopped or service.crashed when none is due.
events_on_exit(i, policy, exit_status, after) ==
    IF should_restart(policy, exit_status)
    THEN IF after.status = "running" THEN <<restarted_event(i, after)>> ELSE <<>>
    ELSE IF exit_status.success
         THEN <<SupEvent("service.stopped", i, [exit_code |-> Some(0)])>>
         ELSE <<SupEvent("service.crashed", i, [exit_code |-> after.exit_code])>>

\* How long ago an Option<Instant> was; None if it is None.
elapsed(instant) == IF instant = None THEN None ELSE Some(sup_now - instant[1])

\* run_supervisor at its start, the pid file written.
TimedInitWith(configs) ==
    /\ SupInitWith(configs)
    /\ sup_now = 0
    /\ signal_at = None
    /\ deadline = 0
    /\ sent = <<>>
    /\ proc = <<>>
    /\ pid_file = TRUE
    /\ started_at = <<>>
    /\ last_exit = <<>>
    /\ restarted = <<>>
    /\ sup_events = <<>>

\* One round of the initial `for proc in processes` when spawn_service
\* succeeds.
TimedInitialSpawn ==
    /\ sup_pc = "spawn"
    /\ services' = Append(services,
                          ManagedService(Some(FreshPid(sup_idx)), Some(FreshPid(sup_idx)),
                                         "running"))
    /\ spawn_count' = [spawn_count EXCEPT ![sup_idx] = @ + 1]
    /\ proc' = Append(proc, "alive")
    /\ started_at' = Append(started_at, Some(sup_now))
    /\ last_exit' = Append(last_exit, None)
    /\ sup_events' = Append(sup_events,
                            SupEvent("service.started", sup_idx,
                                     [pid |-> Some(FreshPid(sup_idx))]))
    /\ IF sup_idx = Len(sup_config)
       THEN sup_pc' = "publish" /\ sup_idx' = 1
       ELSE sup_pc' = "spawn" /\ sup_idx' = sup_idx + 1
    /\ UNCHANGED <<outsideTimedSupervisor, sup_config, state_changed, SHUTDOWN, published,
                   short_exits, ran_for, sup_now, signal_at, deadline, sent, pid_file,
                   restarted>>

\* The Running arm when the child has not exited: Ok(None).
TimedStillRunning ==
    /\ sup_pc = "svc"
    /\ services[sup_idx].status = "running"
    /\ proc[sup_idx] = "alive"
    /\ Advance
    /\ UNCHANGED <<outsideTimedSupervisor, sup_config, services, state_changed, SHUTDOWN,
                   published, spawn_count, short_exits, ran_for, timedVars>>

\* The Running arm when the child has exited: Ok(Some(exit_status)).
TimedChildExited(statuses) ==
    /\ sup_pc = "svc"
    /\ services[sup_idx].status = "running"
    /\ proc[sup_idx] = "exited"
    /\ \E exit_status \in statuses :
          LET i == sup_idx
              svc == services[i]
              policy == sup_config[i].restart
              lived_long == ~(elapsed(started_at[i])[1] < short_run_ms)
              after == on_exit(svc, i, policy, exit_status, lived_long, TRUE)
              spawns == after.status = "running"
          IN  /\ services' = [services EXCEPT ![i] = after]
              /\ last_exit' = [last_exit EXCEPT ![i] = Some(sup_now)]
              /\ spawn_count' = [spawn_count EXCEPT ![i] = IF spawns THEN @ + 1 ELSE @]
              /\ proc' = [proc EXCEPT ![i] = IF spawns THEN "alive" ELSE "reaped"]
              /\ started_at' = [started_at EXCEPT ![i] = IF spawns THEN Some(sup_now) ELSE @]
              /\ restarted' = IF spawns
                              THEN Append(restarted, Restarted(i, sup_now, 0, 0))
                              ELSE restarted
              /\ sup_events' = sup_events \o events_on_exit(i, policy, exit_status, after)
    /\ state_changed' = TRUE
    /\ Advance
    /\ UNCHANGED <<outsideTimedSupervisor, sup_config, SHUTDOWN, published, short_exits,
                   ran_for, sup_now, signal_at, deadline, sent, pid_file>>

\* The Backoff arm: spawn_service once last_exit.elapsed() >= svc.backoff
\* (or at once without a last_exit), nothing before.
TimedBackoff ==
    /\ sup_pc = "svc"
    /\ in_backoff_arm(services[sup_idx])
    /\ LET i == sup_idx
           svc == services[i]
           waited == elapsed(last_exit[i])
           due == waited = None \/ waited[1] >= svc.backoff * 1000
       IN  IF due
           THEN /\ services' = [services EXCEPT ![i] = respawned(svc, i, TRUE)]
                /\ spawn_count' = [spawn_count EXCEPT ![i] = @ + 1]
                /\ proc' = [proc EXCEPT ![i] = "alive"]
                /\ started_at' = [started_at EXCEPT ![i] = Some(sup_now)]
                /\ restarted' = Append(restarted,
                                       Restarted(i, sup_now,
                                                 IF waited = None THEN 0 ELSE waited[1],
                                                 svc.backoff))
                /\ sup_events' = Append(sup_events, restarted_event(i, respawned(svc, i, TRUE)))
                /\ state_changed' = TRUE
           ELSE UNCHANGED <<services, spawn_count, proc, started_at, restarted, sup_events,
                            state_changed>>
    /\ Advance
    /\ UNCHANGED <<outsideTimedSupervisor, sup_config, SHUTDOWN, published, short_exits,
                   ran_for, sup_now, signal_at, deadline, sent, pid_file, last_exit>>

\* After the for loop: write_state if state_changed; break if every service
\* is stopped or failed; else thread::sleep(500 ms), up to the instant last.
\* With prompt exits no child outlives the sleep.
TimedLoopEnd(prompt, last) ==
    /\ sup_pc = "end"
    /\ published' = IF state_changed THEN write_state(services) ELSE published
    /\ IF \A i \in DOMAIN services : Terminal(services[i])
       THEN sup_pc' = "done" /\ sup_now' = sup_now
       ELSE /\ prompt => \A i \in DOMAIN proc : proc[i] # "alive"
            /\ sup_now + tick_ms <= last
            /\ sup_pc' = "top"
            /\ sup_now' = sup_now + tick_ms
    /\ UNCHANGED <<outsideTimedSupervisor, sup_idx, sup_config, services, state_changed,
                   SHUTDOWN, spawn_count, short_exits, ran_for, signal_at, deadline, sent,
                   proc, pid_file, started_at, last_exit, restarted, sup_events>>

\* The child of a service exits no later than the instant last.
ChildDiesBy(last) ==
    /\ sup_now <= last
    /\ ChildDies

timed_run_supervisor(statuses, prompt, last) ==
    \/ TimedInitialSpawn
    \/ InitialPublish
    \/ LoopTop
    \/ TimedStillRunning
    \/ TimedChildExited(statuses)
    \/ TimedBackoff
    \/ TimedLoopEnd(prompt, last)

-----------------------------------------------------------------------------
(* write_state and write_state_to_disk: a state file written as            *)
(* <path>.json.tmp and renamed to <path>.json, and a reader of <path>.json. *)
(* A content is the version of the state it was serialized from and        *)
(* whether all of its bytes are there.                                     *)

FileInit ==
    /\ file_pc = "idle"
    /\ file_version = 0
    /\ file_tmp = None
    /\ file_target = None
    /\ observed = None

Content(version, complete) == [version |-> version, complete |-> complete]

\* serde_json::to_string_pretty(&state) gives the next content; fs::write
\* begins: it fails to open the temp file, or creates (truncates) it.
WriteBegins(cap) ==
    /\ file_pc = "idle"
    /\ file_version < cap
    /\ file_version' = file_version + 1
    /\ \E opened \in BOOLEAN :
          IF opened
          THEN file_tmp' = Some(Content(file_version', FALSE)) /\ file_pc' = "writing"
          ELSE file_tmp' = file_tmp /\ file_pc' = "rename"
    /\ UNCHANGED <<outsideFiles, file_target, observed>>

\* fs::write ends: every byte is written, or the write fails part way (the
\* disk is full) and leaves the bytes written so far.  `let _ =` drops the
\* result either way.
WriteEnds ==
    /\ file_pc = "writing"
    /\ \E written \in BOOLEAN :
          file_tmp' = Some(Content(file_version, written))
    /\ file_pc' = "rename"
    /\ UNCHANGED <<outsideFiles, file_version, file_target, observed>>

\* fs::rename(&tmp, &path): replaces the target with the temp file in one
\* step, or fails (no temp file, or an error) and changes nothing.
Rename ==
    /\ file_pc = "rename"
    /\ \E renamed \in BOOLEAN :
          IF renamed /\ file_tmp # None
          THEN file_target' = file_tmp /\ file_tmp' = None
          ELSE UNCHANGED <<file_target, file_tmp>>
    /\ file_pc' = "idle"
    /\ UNCHANGED <<outsideFiles, file_version, observed>>

\* Another process reads <path>.json.
ReadTarget ==
    /\ file_target # None
    /\ observed' = file_target
    /\ UNCHANGED <<outsideFiles, file_pc, file_version, file_tmp, file_target>>

-----------------------------------------------------------------------------
(* run_emit_listener: the intake socket.  A line is a JSON object (with    *)
(* project and source, and type, ts and level present or not), text that   *)
(* is not JSON, bytes that are not UTF-8, or blank.                        *)

EmitLine(kind, type, ts, level) == [kind |-> kind, type |-> type, ts |-> ts, level |-> level]

EmitLines ==
    {EmitLine("json", type, ts, level) :
        type \in {None, Some("build.failed")},
        ts \in {None, Some(""), Some("2026-01-15T10:30:00Z")},
        level \in {None, Some("error")}}
      \cup {EmitLine(kind, None, None, None) : kind \in {"text", "bytes", "blank"}}

\* serde_json::from_str::<Event>: type, project, source and ts are required
\* fields, level has a default; None stands for Err.
from_str(line) ==
    IF line.kind = "json" /\ line.type # None /\ line.ts # None
    THEN Some([event_type |-> line.type[1], ts |-> line.ts[1], level |-> line.level])
    ELSE None

\* What the listener does to a parsed event before sending it; iso_now() is
\* the string "now".
stamped(event) ==
    [event EXCEPT !.ts = IF @ = "" THEN "now" ELSE @,
                  !.level = IF @ = None THEN Some("info") ELSE @]

EmitInit ==
    /\ emit_stream = None
    /\ emit_offered = <<>>
    /\ emit_taken = <<>>
    /\ emit_socket = [backlog |-> <<>>, reading |-> None, unread |-> <<>>, open |-> <<>>,
                      written |-> <<>>, forwarded |-> <<>>]

\* listener.accept() gives a connection on which a client writes lines and
\* closes.
EmitAccept(written) ==
    /\ emit_stream = None
    /\ emit_stream' = Some(written)
    /\ emit_offered' = written
    /\ emit_taken' = <<>>
    /\ UNCHANGED outsideEmit

\* One round of `for line in reader.lines()` with a line: a line that is not
\* UTF-8 is Err(_) and ends the loop, a blank line is passed over, a line
\* that parses is stamped and sent, any other is logged.
EmitReadsLine ==
    /\ emit_stream # None
    /\ emit_stream[1] # <<>>
    /\ LET line == Head(emit_stream[1])
           parsed == from_str(line)
       IN  /\ emit_stream' = IF line.kind = "bytes" THEN None
                             ELSE Some(Tail(emit_stream[1]))
           /\ emit_taken' = IF line.kind \in {"bytes", "blank"} \/ parsed = None
                            THEN emit_taken
                            ELSE Append(emit_taken, stamped(parsed[1]))
    /\ UNCHANGED <<outsideEmit, emit_offered>>

\* reader.lines() ends: the client has closed the connection.
EmitEndOfStream ==
    /\ emit_stream = Some(<<>>)
    /\ emit_stream' = None
    /\ UNCHANGED <<outsideEmit, emit_offered, emit_taken>>

-----------------------------------------------------------------------------
(* run_emit_listener with several clients of the emit socket.  Each line   *)
(* is a valid event, named by its client and its number on the connection. *)

\* The clients of the emit socket.
Emitters == {1, 2}

\* A client connects: its connection waits to be accepted.
EmitterConnects(c) ==
    /\ c \notin DOMAIN emit_socket.open
    /\ emit_socket' =
          [emit_socket EXCEPT
              !.backlog = Append(@, c),
              !.open = [d \in DOMAIN @ \cup {c} |-> IF d = c THEN TRUE ELSE @[d]],
              !.unread = [d \in DOMAIN @ \cup {c} |-> IF d = c THEN <<>> ELSE @[d]],
              !.written = [d \in DOMAIN @ \cup {c} |-> IF d = c THEN 0 ELSE @[d]]]
    /\ UNCHANGED <<outsideEmitSocket, emitVars>>

\* A connected client writes an event line, at most cap on a connection.
EmitterWrites(c, cap) ==
    /\ c \in DOMAIN emit_socket.open
    /\ emit_socket.open[c]
    /\ emit_socket.written[c] < cap
    /\ emit_socket' =
          [emit_socket EXCEPT
              !.written[c] = @ + 1,
              !.unread[c] = Append(@, [client |-> c, n |-> emit_socket.written[c] + 1])]
    /\ UNCHANGED <<outsideEmitSocket, emitVars>>

\* A connected client closes.
EmitterCloses(c) ==
    /\ c \in DOMAIN emit_socket.open
    /\ emit_socket.open[c]
    /\ emit_socket' = [emit_socket EXCEPT !.open[c] = FALSE]
    /\ UNCHANGED <<outsideEmitSocket, emitVars>>

\* listener.accept() gives the connection that has waited longest; the
\* listener goes into reader.lines() on it.
ListenerAccepts ==
    /\ emit_socket.reading = None
    /\ emit_socket.backlog # <<>>
    /\ emit_socket' = [emit_socket EXCEPT !.reading = Some(Head(emit_socket.backlog)),
                                          !.backlog = Tail(@)]
    /\ UNCHANGED <<outsideEmitSocket, emitVars>>

\* reader.lines() yields a line: the event is sent to the state owner.
ListenerForwards ==
    /\ emit_socket.reading # None
    /\ emit_socket.unread[emit_socket.reading[1]] # <<>>
    /\ LET c == emit_socket.reading[1]
       IN  emit_socket' = [emit_socket EXCEPT !.unread[c] = Tail(@),
                                              !.forwarded = Append(@, Head(emit_socket.unread[c]))]
    /\ UNCHANGED <<outsideEmitSocket, emitVars>>

\* reader.lines() ends: the client has closed and nothing is left to read.
ListenerEndOfStream ==
    /\ emit_socket.reading # None
    /\ emit_socket.unread[emit_socket.reading[1]] = <<>>
    /\ ~emit_socket.open[emit_socket.reading[1]]
    /\ emit_socket' = [emit_socket EXCEPT !.reading = None]
    /\ UNCHANGED <<outsideEmitSocket, emitVars>>

\* The listener thread.
run_emit_listener == ListenerAccepts \/ ListenerForwards \/ ListenerEndOfStream

-----------------------------------------------------------------------------
(* run_daemon and its threads, as far as their ending goes: where each     *)
(* thread is, whether the compositor has an event to read, and what a      *)
(* client of the emit socket is doing.                                     *)

\* After the threads are spawned and the first state is written: the state
\* owner in recv_timeout, the event stream connected, the listeners in their
\* loops.
ThreadsInit ==
    run_daemon = [SHUTDOWN |-> FALSE,
                  state_owner |-> "recv",
                  event_stream |-> "top",
                  emit_listener |-> "top",
                  subscriber_manager |-> "top",
                  niri_event |-> FALSE,
                  emit_client |-> "none",
                  final_state_written |-> FALSE,
                  msg_rx_dropped |-> FALSE]

\* SIGTERM or SIGINT: handle_signal (SA_RESTART: blocked reads go on).
DaemonSignal ==
    /\ ~run_daemon.SHUTDOWN
    /\ run_daemon' = [run_daemon EXCEPT !.SHUTDOWN = TRUE]
    /\ UNCHANGED outsideThreads

\* The compositor has an event for the stream.
CompositorEmits ==
    /\ ~run_daemon.niri_event
    /\ run_daemon.state_owner # "returned"
    /\ run_daemon' = [run_daemon EXCEPT !.niri_event = TRUE]
    /\ UNCHANGED outsideThreads

\* A client of the emit socket connects, writes a line, or closes.
EmitClient ==
    /\ run_daemon.state_owner # "returned"
    /\ \E next \in {"connecting", "wrote", "closed"} :
          /\ \/ run_daemon.emit_client = "none" /\ next = "connecting"
             \/ run_daemon.emit_client = "open" /\ next \in {"wrote", "closed"}
          /\ run_daemon' = [run_daemon EXCEPT !.emit_client = next]
    /\ UNCHANGED outsideThreads

\* The state owner: recv_timeout (at most 500 ms) and the loop test; after
\* the loop the final write_state_to_disk and drop(msg_rx); then the joins
\* of the three threads in turn.
StateOwner ==
    /\ \/ /\ run_daemon.state_owner = "recv"
          /\ run_daemon' = [run_daemon EXCEPT
                               !.state_owner = IF run_daemon.SHUTDOWN THEN "final" ELSE "recv"]
          /\ run_daemon.SHUTDOWN
       \/ /\ run_daemon.state_owner = "final"
          /\ run_daemon' = [run_daemon EXCEPT !.state_owner = "join_event_stream",
                                              !.final_state_written = TRUE,
                                              !.msg_rx_dropped = TRUE]
       \/ /\ run_daemon.state_owner = "join_event_stream"
          /\ run_daemon.event_stream = "returned"
          /\ run_daemon' = [run_daemon EXCEPT !.state_owner = "join_emit_listener"]
       \/ /\ run_daemon.state_owner = "join_emit_listener"
          /\ run_daemon.emit_listener = "returned"
          /\ run_daemon' = [run_daemon EXCEPT !.state_owner = "join_subscriber_manager"]
       \/ /\ run_daemon.state_owner = "join_subscriber_manager"
          /\ run_daemon.subscriber_manager = "returned"
          /\ run_daemon' = [run_daemon EXCEPT !.state_owner = "returned"]
    /\ UNCHANGED outsideThreads

\* connect_and_stream: the flag is tested at the top of the loop, then
\* read_event() blocks until the compositor has an event; the event is sent
\* to the state owner, and a failed send ends the thread.
EventStream ==
    /\ \/ /\ run_daemon.event_stream = "top"
          /\ run_daemon' = [run_daemon EXCEPT
                               !.event_stream = IF run_daemon.SHUTDOWN THEN "returned"
                                                ELSE "read_event"]
       \/ /\ run_daemon.event_stream = "read_event"
          /\ run_daemon.niri_event
          /\ run_daemon' = [run_daemon EXCEPT
                               !.niri_event = FALSE,
                               !.event_stream = IF run_daemon.msg_rx_dropped THEN "returned"
                                                ELSE "top"]
    /\ UNCHANGED outsideThreads

\* run_emit_listener: the flag is tested before each accept; with a
\* connection the thread is in reader.lines(), which blocks until the client
\* writes a line or closes; a failed send ends the thread.
EmitListener ==
    /\ \/ /\ run_daemon.emit_listener = "top"
          /\ run_daemon' = [run_daemon EXCEPT
                               !.emit_listener =
                                   IF run_daemon.SHUTDOWN THEN "returned"
                                   ELSE IF run_daemon.emit_client = "connecting" THEN "lines"
                                   ELSE "top",
                               !.emit_client =
                                   IF ~run_daemon.SHUTDOWN /\ @ = "connecting" THEN "open"
                                   ELSE @]
          /\ run_daemon.SHUTDOWN \/ run_daemon.emit_client = "connecting"
       \/ /\ run_daemon.emit_listener = "lines"
          /\ run_daemon.emit_client = "wrote"
          /\ run_daemon' = [run_daemon EXCEPT
                               !.emit_client = "open",
                               !.emit_listener = IF run_daemon.msg_rx_dropped THEN "returned"
                                                 ELSE "lines"]
       \/ /\ run_daemon.emit_listener = "lines"
          /\ run_daemon.emit_client = "closed"
          /\ run_daemon' = [run_daemon EXCEPT !.emit_client = "none",
                                              !.emit_listener = "top"]
    /\ UNCHANGED outsideThreads

\* run_subscriber_manager: accepts and try_recv do not block, the loop
\* sleeps 50 ms and tests the flag.
SubscriberManager ==
    /\ run_daemon.subscriber_manager = "top"
    /\ run_daemon.SHUTDOWN
    /\ run_daemon' = [run_daemon EXCEPT !.subscriber_manager = "returned"]
    /\ UNCHANGED outsideThreads

-----------------------------------------------------------------------------
(* The interrupt flag between run_commander and speech_worker: the         *)
(* commander sets it for a critical event and sends the message; the       *)
(* worker takes a message, clears the flag and speaks, and speaking ends   *)
(* when the player's process has exited.                                   *)

PlaybackInit ==
    speech = [interrupt |-> FALSE, speech_rx |-> <<>>, playing |-> None, finished |-> <<>>,
              sent |-> 0]

\* run_commander, for a speakable event past the cooldown: the flag is set
\* when the event is critical, then the message is sent.
CommanderSends(critical, cap) ==
    /\ speech.sent < cap
    /\ speech' = [speech EXCEPT
                     !.interrupt = IF critical THEN TRUE ELSE @,
                     !.speech_rx = Append(@, [id |-> speech.sent + 1, critical |-> critical]),
                     !.sent = @ + 1,
                     !.playing = IF critical /\ @ # None
                                 THEN Some([@[1] EXCEPT !.overtaken = TRUE]) ELSE @]
    /\ UNCHANGED outsidePlayback

\* speech_worker: a message received; interrupt.store(false), then speak.
WorkerReceives ==
    /\ speech.playing = None
    /\ speech.speech_rx # <<>>
    /\ speech' = [speech EXCEPT
                     !.interrupt = FALSE,
                     !.speech_rx = Tail(@),
                     !.playing = Some([id |-> Head(speech.speech_rx).id,
                                       overtaken |-> FALSE])]
    /\ UNCHANGED outsidePlayback

\* play_audio and speak_fallback: the player's process is waited for; the
\* flag is not read.
PlaybackEnds ==
    /\ speech.playing # None
    /\ speech' = [speech EXCEPT
                     !.playing = None,
                     !.finished = Append(@, [id |-> speech.playing[1].id,
                                             overtaken |-> speech.playing[1].overtaken,
                                             how |-> "completed",
                                             interrupt |-> speech.interrupt])]
    /\ UNCHANGED outsidePlayback

-----------------------------------------------------------------------------
(* Starting the supervisor of one project: drift open looks at              *)
(* supervisor.pid and probes the process it names, removes a stale file    *)
(* and spawns `drift _supervisor`, which writes its own pid.               *)

\* The concurrent runs of drift open for the project.
Openers == {1, 2}

\* No supervisor, no pid file, no open under way; spawned counts the
\* supervisors ever spawned and numbers their pids.
SingletonInit ==
    singleton = [pid_file |-> None,
                 live |-> {},
                 written |-> {},
                 open |-> [o \in Openers |-> "idle"],
                 spawned |-> 0]

\* drift open begins, at most cap supervisors having been spawned.
OpenBegins(o, cap) ==
    /\ singleton.open[o] = "idle"
    /\ singleton.spawned < cap
    /\ singleton' = [singleton EXCEPT !.open[o] = "check"]
    /\ UNCHANGED outsideSingleton

\* supervisor_running: the file exists, parses, and kill(pid, 0) succeeds.
supervisor_running == singleton.pid_file # None /\ singleton.pid_file[1] \in singleton.live

\* The check for an existing supervisor.
OpenChecks(o) ==
    /\ singleton.open[o] = "check"
    /\ singleton' = [singleton EXCEPT !.open[o] = IF supervisor_running THEN "idle"
                                                  ELSE "remove"]
    /\ UNCHANGED outsideSingleton

\* The stale file is removed.
OpenRemovesStale(o) ==
    /\ singleton.open[o] = "remove"
    /\ singleton' = [singleton EXCEPT !.pid_file = None, !.open[o] = "spawn"]
    /\ UNCHANGED outsideSingleton

\* `drift _supervisor` is spawned.
OpenSpawns(o, cap) ==
    /\ singleton.open[o] = "spawn"
    /\ singleton.spawned < cap
    /\ singleton' = [singleton EXCEPT !.live = @ \cup {singleton.spawned + 1},
                                      !.spawned = @ + 1,
                                      !.open[o] = "idle"]
    /\ UNCHANGED outsideSingleton

\* run_supervisor: the new process writes its pid, whatever the file holds.
SupervisorWritesPid(pid) ==
    /\ pid \in singleton.live \ singleton.written
    /\ singleton' = [singleton EXCEPT !.pid_file = Some(pid), !.written = @ \cup {pid}]
    /\ UNCHANGED outsideSingleton

\* A supervisor is killed, leaving its file behind.
SupervisorKilled(pid) ==
    /\ pid \in singleton.live \cap singleton.written
    /\ singleton' = [singleton EXCEPT !.live = @ \ {pid}]
    /\ UNCHANGED outsideSingleton

-----------------------------------------------------------------------------
(* speech_worker and TtsState: the announcer's speech thread.  A call of   *)
(* speak, with the probe and the requests it makes, is taken at one        *)
(* instant.                                                                *)

\* The seconds after a check before maybe_recheck_http probes again.
recheck_secs == 60

TtsState(e, checked) == [engine |-> e, last_http_check |-> checked]

\* TtsState::new: the engine chosen from the startup probe and the config.
new(probe_ok, has_fallback, now) ==
    TtsState(IF probe_ok THEN "Http" ELSE IF has_fallback THEN "Fallback" ELSE "None",
             now)

\* maybe_recheck_http probing at every call.
maybe_recheck_http_eager(st, now, probe_ok) ==
    IF st.engine = "Http" THEN [st |-> st, probed |-> FALSE]
    ELSE [st |-> TtsState(IF probe_ok THEN "Http" ELSE st.engine, now),
          probed |-> TRUE]

\* maybe_recheck_http: the state after it, and whether it probed.
maybe_recheck_http(st, now, probe_ok) ==
    IF st.engine = "Http" THEN [st |-> st, probed |-> FALSE]
    ELSE IF now - st.last_http_check >= recheck_secs
    THEN [st |-> TtsState(IF probe_ok THEN "Http" ELSE st.engine, now),
          probed |-> TRUE]
    ELSE [st |-> st, probed |-> FALSE]

Attempt(n, via, ok) == [n |-> n, via |-> via, ok |-> ok]

\* TtsState::speak for message n: the state after it, the probe it made and
\* the requests it made.
speak(st, n, now, probe_ok, http_ok, fallback_ok) ==
    LET checked == maybe_recheck_http(st, now, probe_ok)
        probed == IF checked.probed THEN <<[at |-> now, ok |-> probe_ok]>> ELSE <<>>
    IN  CASE checked.st.engine = "Http" ->
               IF http_ok
               THEN [st |-> checked.st, probed |-> probed,
                     attempted |-> <<Attempt(n, "http", TRUE)>>]
               ELSE [st |-> TtsState("Fallback", now), probed |-> probed,
                     attempted |-> <<Attempt(n, "http", FALSE),
                                     Attempt(n, "fallback", fallback_ok)>>]
          [] checked.st.engine = "Fallback" ->
               [st |-> checked.st, probed |-> probed,
                attempted |-> <<Attempt(n, "fallback", fallback_ok)>>]
          [] OTHER ->
               [st |-> checked.st, probed |-> probed, attempted |-> <<>>]

\* No speech thread: the announcer is not part of the run.
TtsIdle ==
    /\ engine = "None"
    /\ last_http_check = 0
    /\ fallback_configured = FALSE
    /\ tts_now = 0
    /\ spoken = 0
    /\ attempts = <<>>
    /\ probes = <<>>

\* speech_worker after TtsState::new.
TtsInit ==
    /\ fallback_configured \in BOOLEAN
    /\ tts_now = 0
    /\ \E probe_ok \in BOOLEAN :
          /\ engine = new(probe_ok, fallback_configured, 0).engine
          /\ last_http_check = new(probe_ok, fallback_configured, 0).last_http_check
          /\ probes = <<[at |-> 0, ok |-> probe_ok]>>
    /\ spoken = 0
    /\ attempts = <<>>

\* rx.recv_timeout gives a message: tts.speak(&msg).  speak_fallback fails
\* before it runs anything when neither a fallback engine nor a fallback
\* command is configured.
SpeechRecv(cap) ==
    /\ spoken < cap
    /\ \E probe_ok, http_ok, fallback_ok \in BOOLEAN :
          /\ fallback_ok => fallback_configured
          /\ LET after == speak(TtsState(engine, last_http_check), spoken + 1, tts_now,
                                probe_ok, http_ok, fallback_ok)
             IN  /\ engine' = after.st.engine
                 /\ last_http_check' = after.st.last_http_check
                 /\ probes' = probes \o after.probed
                 /\ attempts' = attempts \o after.attempted
    /\ spoken' = spoken + 1
    /\ UNCHANGED <<fallback_configured, tts_now, outsideSpeech>>

\* rx.recv_timeout times out, or blocks for a while: time passes.
SpeechWaits(dt, last) ==
    /\ tts_now + dt <= last
    /\ tts_now' = tts_now + dt
    /\ UNCHANGED <<engine, last_http_check, fallback_configured, spoken, attempts,
                   probes, outsideSpeech>>

-----------------------------------------------------------------------------
(* run_commander: the announcer's subscribe-reader loop and its            *)
(* CooldownTracker.  Instants are whole seconds; a read_line that blocks   *)
(* (for at most 500 ms) ends in the same second or in the next.            *)

CmdInit ==
    /\ cmd_pc = "flush"
    /\ cmd_now = 0
    /\ entries = <<>>
    /\ speech_tx = <<>>
    /\ heard = <<>>
    /\ muted = [exists |-> FALSE, discarded |-> <<>>]

\* The key of a cooldown entry: (project, event_type).
CooldownKey(project, event_type) == <<project, event_type>>

\* SpeechMessage, by what its text says: the rendered event ("immediate") or
\* "<project>: <count> more <event_type> events" ("batch"); at: when sent.
SpeechMessage(kind, key, count, at) ==
    [kind |-> kind, project |-> key[1], type |-> key[2], count |-> count, at |-> at]

\* CooldownTracker::check that opens no new window while one is recorded.
check_never_reopening(es, key, now, cooldown) ==
    IF key \in DOMAIN es
    THEN [entries |-> [es EXCEPT ![key].count = @ + 1], action |-> "Speak", count |-> 0]
    ELSE [entries |-> [k \in DOMAIN es \cup {key} |->
                          IF k = key THEN [count |-> 1, expires |-> now + cooldown] ELSE es[k]],
          action |-> "Speak", count |-> 0]

\* CooldownTracker::check: the entries after the call and the CooldownAction
\* (with the count of Batch(count)).
check(es, key, now, cooldown) ==
    IF key \in DOMAIN es
    THEN IF now < es[key].expires
         THEN [entries |-> [es EXCEPT ![key].count = @ + 1], action |-> "Suppress", count |-> 0]
         ELSE LET count == es[key].count
              IN  [entries |-> [es EXCEPT ![key] = [count |-> 1, expires |-> now + cooldown]],
                   action |-> IF count > 1 THEN "Batch" ELSE "Speak",
                   count |-> count]
    ELSE [entries |-> [k \in DOMAIN es \cup {key} |->
                          IF k = key THEN [count |-> 1, expires |-> now + cooldown] ELSE es[k]],
          action |-> "Speak", count |-> 0]

\* CooldownTracker::flush_expired: the entries retained and the keys of the
\* batches pushed (in the order retain visits them, which is any).
flush_expired(es, now) ==
    [entries |-> [k \in {k \in DOMAIN es : now < es[k].expires} |-> es[k]],
     batches |-> {k \in DOMAIN es : now >= es[k].expires /\ es[k].count > 1}]

\* The top of the inner loop (not shut down, not muted): flush_expired and a
\* batch message for each batch it returns.
CmdFlush ==
    /\ cmd_pc = "flush"
    /\ ~muted.exists
    /\ LET flushed == flush_expired(entries, cmd_now)
       IN  /\ entries' = flushed.entries
           /\ \E order \in Orders(flushed.batches) :
                 speech_tx' = speech_tx \o
                    [i \in 1..Len(order) |->
                        SpeechMessage("batch", order[i], entries[order[i]].count, cmd_now)]
    /\ cmd_pc' = "read"
    /\ UNCHANGED <<outsideCommander, cmd_now, heard>>

\* read_line returns a line with a speakable event of the key, dt seconds
\* after the flush: cooldown.check, then the batch message (on Batch) and the
\* rendered message (on Batch and on Speak).
CmdReadEvent(key, dt, cooldown, last, cap) ==
    /\ cmd_pc = "read"
    /\ cmd_now + dt <= last
    /\ Len(heard) < cap
    /\ cmd_now' = cmd_now + dt
    /\ heard' = Append(heard, [key |-> key, at |-> cmd_now'])
    /\ LET checked == check(entries, key, cmd_now', cooldown)
           batch == IF checked.action = "Batch"
                    THEN <<SpeechMessage("batch", key, checked.count, cmd_now')>>
                    ELSE <<>>
           rendered == IF checked.action = "Suppress"
                       THEN <<>>
                       ELSE <<SpeechMessage("immediate", key, 0, cmd_now')>>
       IN  /\ entries' = checked.entries
           /\ speech_tx' = speech_tx \o batch \o rendered
    /\ cmd_pc' = "flush"
    /\ UNCHANGED outsideCommander

\* read_line times out (or returns a line that is not a speakable event).
CmdReadNothing(last) ==
    /\ cmd_pc = "read"
    /\ cmd_now + 1 <= last
    /\ cmd_now' = cmd_now + 1
    /\ cmd_pc' = "flush"
    /\ UNCHANGED <<outsideCommander, entries, speech_tx, heard>>

\* `drift commander mute` creates the marker file, unmute removes it.
MuteToggles ==
    /\ muted' = [muted EXCEPT !.exists = ~@]
    /\ UNCHANGED <<outsideMuted, cmdVars>>

\* The muted read with the line it discards counted into its cooldown entry.
CmdMutedRead_counting(line, dt, last, cap) ==
    /\ cmd_pc = "flush"
    /\ muted.exists
    /\ cmd_now + dt <= last
    /\ line # None => Len(muted.discarded) < cap
    /\ cmd_now' = cmd_now + dt
    /\ muted' = IF line = None THEN muted
                ELSE [muted EXCEPT !.discarded = Append(@, [key |-> line[1], at |-> cmd_now'])]
    /\ entries' = IF line = None \/ line[1] \notin DOMAIN entries THEN entries
                  ELSE [entries EXCEPT ![line[1]].count = @ + 1]
    /\ UNCHANGED <<outsideMuted, cmd_pc, speech_tx, heard>>

\* The top of the inner loop with the marker file there: one read_line, its
\* line (an event of the key, or none within the read timeout) dropped, and
\* back to the top.
CmdMutedRead(line, dt, last, cap) ==
    /\ cmd_pc = "flush"
    /\ muted.exists
    /\ cmd_now + dt <= last
    /\ line # None => Len(muted.discarded) < cap
    /\ cmd_now' = cmd_now + dt
    /\ muted' = IF line = None THEN muted
                ELSE [muted EXCEPT !.discarded = Append(@, [key |-> line[1], at |-> cmd_now'])]
    /\ UNCHANGED <<outsideMuted, cmd_pc, entries, speech_tx, heard>>

-----------------------------------------------------------------------------
(* MirrorSpec: the state owner under every compositor event.               *)

\* Respawns of one service in a run with two services.
MaxRestarts == 2
\* Respawns of the service in a run with one service.
MaxBackoffRestarts == 6

TwoServices == [{1, 2} -> [restart : RestartPolicies]]
OneService == [{1} -> [restart : {"always", "on-failure"}]]

SupIdle == SupInitWith(OneService) /\ sup_config[1].restart = "always"

MirrorInit == DaemonInit /\ SubInit /\ ClassifyIdle /\ SupIdle /\ FileInit /\ EmitInit /\ ThreadsInit /\ PlaybackInit /\ SingletonInit /\ CmdInit /\ TtsIdle /\ TimedIdle

MirrorNext ==
    \/ \E snapshot \in WorkspaceSnapshots, registry \in RegistryResults :
          WorkspacesChanged(snapshot, registry, MaxMirrorEvents)
    \/ \E id \in WsIds, focused \in BOOLEAN : WorkspaceActivated(id, focused, MaxMirrorEvents)
    \/ WindowEvents(WindowRecsOn1, MaxMirrorEvents)
    \/ OtherNiriEvent

MirrorSpec == MirrorInit /\ [][MirrorNext]_vars

-----------------------------------------------------------------------------
(* DaemonSpec: the state owner under emitters that send every kind of      *)
(* event, in a session whose two workspaces carry the two projects.        *)

DaemonNext ==
    \/ \E emitted \in EmittedEvents(clock) : handle_emit_event(emitted, MaxEmits, MaxEvents)
    \/ \E snapshot \in ProjectSnapshots, registry \in RegistryComplete :
          WorkspacesChanged(snapshot, registry, MaxEvents)
    \/ \E id \in WsIds, focused \in BOOLEAN : WorkspaceActivated(id, focused, MaxEvents)
    \/ WindowEvents(WindowRecsOn1, MaxEvents)
    \/ OtherNiriEvent

DaemonSpec == MirrorInit /\ [][DaemonNext]_vars

-----------------------------------------------------------------------------
(* SubscriberSpec: the subscriber manager, clients of the subscribe socket *)
(* and a state owner that processes emitted info events.                   *)

SubscriberInit == DaemonFresh /\ SubInit /\ ClassifyIdle /\ SupIdle /\ FileInit /\ EmitInit /\ ThreadsInit /\ PlaybackInit /\ SingletonInit /\ CmdInit /\ TtsIdle /\ TimedIdle

SubscriberNext ==
    \/ \E emitted \in EmittedInfo(clock) : handle_emit_event(emitted, MaxSubEvents, MaxSubEvents)
    \/ \E c \in Conns : Connect(c)
    \/ \E c \in Conns : PeerCloses(c)
    \/ run_subscriber_manager

SubscriberSpec == SubscriberInit /\ [][SubscriberNext]_vars

-----------------------------------------------------------------------------
(* ClassifySpec: classify_priority applied once to any input.              *)

ClassifySpecInit == DaemonFresh /\ SubInit /\ ClassifyInit /\ SupIdle /\ FileInit /\ EmitInit /\ ThreadsInit /\ PlaybackInit /\ SingletonInit /\ CmdInit /\ TtsIdle /\ TimedIdle

ClassifySpec == ClassifySpecInit /\ [][Classify]_vars

-----------------------------------------------------------------------------
(* SupervisorSpec: two services of any restart policy.                     *)
(* BackoffSpec: one service that restarts, over many respawns.             *)

SupervisorInit == DaemonFresh /\ SubInit /\ ClassifyIdle /\ SupInitWith(TwoServices) /\ FileInit /\ EmitInit /\ ThreadsInit /\ PlaybackInit /\ SingletonInit /\ CmdInit /\ TtsIdle /\ TimedIdle

SupervisorNext == handle_signal \/ run_supervisor(MaxRestarts)

SupervisorSpec == SupervisorInit /\ [][SupervisorNext]_vars

BackoffInit == DaemonFresh /\ SubInit /\ ClassifyIdle /\ SupInitWith(OneService) /\ FileInit /\ EmitInit /\ ThreadsInit /\ PlaybackInit /\ SingletonInit /\ CmdInit /\ TtsIdle /\ TimedIdle

BackoffNext == handle_signal \/ run_supervisor(MaxBackoffRestarts)

BackoffSpec == BackoffInit /\ [][BackoffNext]_vars

-----------------------------------------------------------------------------
(* StateFileSpec: successive writes of one state file beside a reader.     *)

\* Writes of the state file in one run of the model.
MaxWrites == 4

StateFileInit == DaemonFresh /\ SubInit /\ ClassifyIdle /\ SupIdle /\ FileInit /\ EmitInit /\ ThreadsInit /\ PlaybackInit /\ SingletonInit /\ CmdInit /\ TtsIdle /\ TimedIdle

StateFileNext == WriteBegins(MaxWrites) \/ WriteEnds \/ Rename \/ ReadTarget

StateFileSpec == StateFileInit /\ [][StateFileNext]_vars

-----------------------------------------------------------------------------
(* AnnouncerSpec: the reader loop under speakable events of two keys, with *)
(* a short cooldown so that windows follow one another.                    *)
(* BatchSpec: the reader loop under agent.completed events of one project, *)
(* with the default cooldown.                                              *)

\* commander.cooldown_sec, scaled down.
ShortCooldown == 2
\* The last instant of a run, and the events read in it.
MaxTime == 5
MaxHeard == 4
\* default_cooldown_sec
cooldown_sec == 5
\* The last instant of a run with the default cooldown, and the events read.
MaxBatchTime == 6
MaxBatchHeard == 6

TwoKeys == {CooldownKey("alpha", "agent.completed"), CooldownKey("alpha", "build.failed")}
OneKey == {CooldownKey("alpha", "agent.completed")}

AnnouncerInit == DaemonFresh /\ SubInit /\ ClassifyIdle /\ SupIdle /\ FileInit /\ EmitInit /\ ThreadsInit /\ PlaybackInit /\ SingletonInit /\ CmdInit /\ TtsIdle /\ TimedIdle

AnnouncerNext ==
    \/ CmdFlush
    \/ \E key \in TwoKeys, dt \in {0, 1} :
          CmdReadEvent(key, dt, ShortCooldown, MaxTime, MaxHeard)
    \/ CmdReadNothing(MaxTime)

AnnouncerSpec == AnnouncerInit /\ [][AnnouncerNext]_vars

\* The lines discarded in a run with the mute marker.
MaxDiscarded == 2

MuteNext ==
    \/ MuteToggles
    \/ CmdFlush
    \/ \E key \in OneKey, dt \in {0, 1} :
          CmdReadEvent(key, dt, ShortCooldown, MaxTime, MaxHeard)
    \/ CmdReadNothing(MaxTime)
    \/ \E line \in {None} \cup {Some(key) : key \in OneKey}, dt \in {0, 1} :
          CmdMutedRead(line, dt, MaxTime, MaxDiscarded)

MuteSpec == AnnouncerInit /\ [][MuteNext]_vars

BatchNext ==
    \/ CmdFlush
    \/ \E key \in OneKey, dt \in {0, 1} :
          CmdReadEvent(key, dt, cooldown_sec, MaxBatchTime, MaxBatchHeard)
    \/ CmdReadNothing(MaxBatchTime)

BatchSpec == AnnouncerInit /\ [][BatchNext]_vars

\* The messages the speech worker receives in a run, and its last instant.
MaxUtterances == 4
MaxTtsTime == 180

SpeechInit == DaemonFresh /\ SubInit /\ ClassifyIdle /\ SupIdle /\ FileInit /\ EmitInit /\ ThreadsInit /\ PlaybackInit /\ SingletonInit /\ CmdInit /\ TtsInit /\ TimedIdle

SpeechNext ==
    \/ SpeechRecv(MaxUtterances)
    \/ \E dt \in {20, 40} : SpeechWaits(dt, MaxTtsTime)

SpeechSpec == SpeechInit /\ [][SpeechNext]_vars

\* A stop command that does not return promptly: the ms it takes.
SlowStop == 6000

\* Two services; the first with or without a stop_command, in the repository
\* or in a directory below it.
ShutdownConfigs ==
    {<<[restart |-> "always", stop_command |-> stop, cwd |-> cwd],
       [restart |-> "always", stop_command |-> None, cwd |-> "."]>> :
        stop \in {None, Some("stop")}, cwd \in {".", "backend"}}

\* The records an iteration can leave: running, in backoff, stopped, failed.
StartRecords ==
    {ManagedService(Some(101), Some(101), "running"),
     ManagedService(Some(201), Some(201), "running"),
     [ManagedService(None, None, "backoff") EXCEPT !.backoff = 1,
                                                    !.exit_code = Some(1)],
     [ManagedService(None, None, "stopped") EXCEPT !.exit_code = Some(0)],
     ManagedService(None, None, "failed")}

ShutdownInit ==
    DaemonFresh /\ SubInit /\ ClassifyIdle /\ FileInit /\ EmitInit /\ ThreadsInit /\ PlaybackInit /\ SingletonInit /\ CmdInit /\ TtsIdle
        /\ ShutdownInitWith(ShutdownConfigs, StartRecords)

ShutdownNext ==
    \/ SignalInSleep
    \/ \E dt \in {0, tick_ms} : SleepEnds(dt)
    \/ ChildDies
    \/ ShutdownNoticed
    \/ graceful_shutdown({0, SlowStop})

ShutdownSpec == ShutdownInit /\ [][ShutdownNext]_vars

\* The last instant of a run of the fast-crash loop, in ms.
MaxCrashTime == 21000

\* One service, restart = always, whose command fails at once.
CrashingService == {<<[restart |-> "always", stop_command |-> None, cwd |-> "."]>>}
Failures == {st \in ExitStatuses : ~st.success}

CrashLoopInit ==
    DaemonFresh /\ SubInit /\ ClassifyIdle /\ FileInit /\ EmitInit /\ ThreadsInit /\ PlaybackInit /\ SingletonInit /\ CmdInit /\ TtsIdle
        /\ TimedInitWith(CrashingService)

CrashLoopNext ==
    \/ timed_run_supervisor(Failures, TRUE, MaxCrashTime)
    \/ ChildDies

CrashLoopSpec == CrashLoopInit /\ [][CrashLoopNext]_vars

\* The lines a client writes on one connection.
MaxEmitLines == 3

EmitListenerInit ==
    DaemonFresh /\ SubInit /\ ClassifyIdle /\ SupIdle /\ FileInit /\ EmitInit /\ ThreadsInit /\ PlaybackInit /\ SingletonInit /\ CmdInit
        /\ TtsIdle /\ TimedIdle

EmitListenerNext ==
    \/ \E n \in 0..MaxEmitLines : \E written \in [1..n -> EmitLines] : EmitAccept(written)
    \/ EmitReadsLine
    \/ EmitEndOfStream

EmitListenerSpec == EmitListenerInit /\ [][EmitListenerNext]_vars

\* The lines a client writes on its connection.
MaxWritten == 2

EmitSocketInit ==
    DaemonFresh /\ SubInit /\ ClassifyIdle /\ SupIdle /\ FileInit /\ EmitInit /\ ThreadsInit
        /\ PlaybackInit /\ SingletonInit /\ CmdInit /\ TtsIdle /\ TimedIdle

EmitSocketNext ==
    \/ \E c \in Emitters : EmitterConnects(c)
    \/ \E c \in Emitters : EmitterWrites(c, MaxWritten)
    \/ \E c \in Emitters : EmitterCloses(c)
    \/ run_emit_listener

\* The listener thread keeps running; the clients owe nothing.
EmitSocketSpec ==
    /\ EmitSocketInit
    /\ [][EmitSocketNext]_vars
    /\ WF_vars(run_emit_listener)

ReconnectNext ==
    \/ \E emitted \in EmittedSpeakable(clock) :
          handle_emit_event(emitted, MaxSubEvents, MaxSubEvents)
    \/ \E c \in Conns : AnnouncerConnects(c)
    \/ \E c \in Conns : AnnouncerLeaves(c)
    \/ run_subscriber_manager

ReconnectSpec == SubscriberInit /\ [][ReconnectNext]_vars

ThreadsSpecInit ==
    DaemonFresh /\ SubInit /\ ClassifyIdle /\ SupIdle /\ FileInit /\ EmitInit /\ ThreadsInit /\ PlaybackInit /\ SingletonInit
        /\ CmdInit /\ TtsIdle /\ TimedIdle

ThreadsNext ==
    \/ DaemonSignal
    \/ CompositorEmits
    \/ EmitClient
    \/ StateOwner
    \/ EventStream
    \/ EmitListener
    \/ SubscriberManager

\* Every thread keeps running; the compositor and the clients owe nothing.
ThreadsSpec ==
    /\ ThreadsSpecInit
    /\ [][ThreadsNext]_vars
    /\ WF_vars(StateOwner)
    /\ WF_vars(EventStream)
    /\ WF_vars(EmitListener)
    /\ WF_vars(SubscriberManager)

\* The most supervisors spawned in a run.
MaxSpawned == 3

SingletonSpecInit ==
    DaemonFresh /\ SubInit /\ ClassifyIdle /\ SupIdle /\ FileInit /\ EmitInit /\ ThreadsInit
        /\ PlaybackInit /\ SingletonInit /\ CmdInit /\ TtsIdle /\ TimedIdle

SingletonNext ==
    \/ \E o \in Openers : OpenBegins(o, MaxSpawned)
    \/ \E o \in Openers : OpenChecks(o)
    \/ \E o \in Openers : OpenRemovesStale(o)
    \/ \E o \in Openers : OpenSpawns(o, MaxSpawned)
    \/ \E pid \in 1..MaxSpawned : SupervisorWritesPid(pid)
    \/ \E pid \in 1..MaxSpawned : SupervisorKilled(pid)

SingletonSpec == SingletonSpecInit /\ [][SingletonNext]_vars

\* The most messages the commander sends in a run.
MaxSpoken == 4

PlaybackSpecInit ==
    DaemonFresh /\ SubInit /\ ClassifyIdle /\ SupIdle /\ FileInit /\ EmitInit /\ ThreadsInit
        /\ PlaybackInit /\ SingletonInit /\ CmdInit /\ TtsIdle /\ TimedIdle

PlaybackNext ==
    \/ \E critical \in BOOLEAN : CommanderSends(critical, MaxSpoken)
    \/ WorkerReceives
    \/ PlaybackEnds

PlaybackSpec == PlaybackSpecInit /\ [][PlaybackNext]_vars

\* The last instant of a run of one-shot services, in ms.
MaxOneShotTime == 3000

\* Two services, each a one-shot (restart = never) or restarted always.
OneShots ==
    [{1, 2} -> {[restart |-> policy, stop_command |-> None, cwd |-> "."] :
                   policy \in {"never", "always"}}]

OneShotInit ==
    DaemonFresh /\ SubInit /\ ClassifyIdle /\ FileInit /\ EmitInit /\ ThreadsInit /\ PlaybackInit /\ SingletonInit /\ CmdInit /\ TtsIdle
        /\ TimedInitWith(OneShots)

\* The loop with the arm of stopped and failed services.
one_shot_supervisor ==
    \/ timed_run_supervisor(ExitStatuses, FALSE, MaxOneShotTime)
    \/ TerminalSkipped

OneShotNext ==
    \/ one_shot_supervisor
    \/ ChildDiesBy(MaxOneShotTime - tick_ms)

\* The supervisor's thread keeps running: no step of it that can be taken
\* is put off for ever.
OneShotSpec ==
    /\ OneShotInit
    /\ [][OneShotNext]_vars
    /\ WF_vars(one_shot_supervisor)

-----------------------------------------------------------------------------
(* Properties of the state owner.                                          *)

\* The events processed so far, and those of one project, in processing order.
ProcessedEvents == [i \in 1..Len(processed) |-> processed[i].event]

ProcessedOf(p) == LET Is(e) == e.project = p IN SelectSeq(ProcessedEvents, Is)

Classified(e) == e.priority \in {Some(x) : x \in Priorities}

\* C1: every event held in a ring buffer and every event sent to the
\* subscriber manager carries one of the five priorities, and it is the
\* daemon's classification of the event (by the active project of the moment
\* it was processed), whatever priority the emitter supplied.
C1_PriorityIsDaemons ==
    /\ \A p \in DOMAIN events : \A i \in 1..Len(events[p]) : Classified(events[p][i])
    /\ \A i \in 1..Len(subscriber_tx) : Classified(subscriber_tx[i])
    /\ \A i \in 1..Len(processed) :
          /\ subscriber_tx[i] = processed[i].event
          /\ processed[i].event.priority
                = Some(classify_priority(processed[i].active, processed[i].event))

\* An event of an emitter (who supplied "bogus" or "critical") sits in a ring
\* and in the channel with priority silent.
C1_Witness ==
    \E p \in DOMAIN events : \E i \in 1..Len(events[p]) :
        /\ events[p][i].source = "cli"
        /\ events[p][i].priority = Some("silent")
        /\ \E j \in 1..Len(subscriber_tx) : subscriber_tx[j] = events[p][i]

\* The urgency of the notification for a priority that has one.
Urgency(priority) ==
    CASE priority = "critical" -> "critical"
      [] priority = "high" -> "normal"
      [] priority = "medium" -> "low"

Loud(e) == e.priority \in {Some("critical"), Some("high"), Some("medium")}

\* C12: the notify-send invocations are, in processing order, one for each
\* processed event classified critical, high or medium, with urgency
\* critical, normal, low, and none for an event classified low or silent;
\* each was made when its event was already in its ring and in the channel.
C12_NotifiedIffLoud ==
    LET loud == SelectSeq(ProcessedEvents, Loud)
    IN  notified = [k \in 1..Len(loud) |->
                       [ts |-> loud[k].ts, urgency |-> Urgency(loud[k].priority[1]),
                        stored |-> TRUE, sent |-> TRUE]]

\* A success of the project that is not active was notified with urgency low,
\* before and after events that were not notified.
C12_Witness ==
    /\ Len(notified) = 1
    /\ notified[1].urgency = "low"
    /\ \E i, j, k \in 1..Len(processed) :
          /\ i < j /\ j < k
          /\ processed[j].event.ts = notified[1].ts
          /\ processed[j].active # None
          /\ ~Loud(processed[i].event) /\ ~Loud(processed[k].event)

\* C5: workspace_to_project maps id to name only if the mirrored workspace id
\* exists, carries exactly that name, and the name is a known project; and
\* the map changes only in a step that replaces the workspace list or the
\* known projects, which the WorkspacesChanged arm alone does.
C5_MapSound ==
    \A id \in DOMAIN workspace_to_project :
        /\ id \in DOMAIN workspaces
        /\ workspaces[id].name = Some(workspace_to_project[id])
        /\ workspace_to_project[id] \in known_projects

WorkspaceNames(wss) == [id \in DOMAIN wss |-> wss[id].name]

C5_OnlyWorkspacesChanged ==
    workspace_to_project' # workspace_to_project
        => /\ \/ WorkspaceNames(workspaces') # WorkspaceNames(workspaces)
              \/ known_projects' # known_projects
           /\ workspaces' \in WorkspaceSnapshots

C5_MapFollowsWorkspaces == [](C5_MapSound) /\ [][C5_OnlyWorkspacesChanged]_vars

\* The map holds a project workspace while another mirrored workspace carries
\* a name that is no known project.
C5_Witness ==
    /\ workspace_to_project # <<>>
    /\ \E id \in DOMAIN workspaces \ DOMAIN workspace_to_project : workspaces[id].name # None

\* C9: each ring holds at most buffer_size events, and they are the most
\* recently processed events of its project, unchanged and in processing
\* order; a project without a ring has had no event.
C9_RingIsRecentEvents ==
    /\ \A p \in DOMAIN events :
          /\ Len(events[p]) <= buffer_size
          /\ events[p] = LastN(ProcessedOf(p), buffer_size)
    /\ \A p \in Projects \ DOMAIN events : ProcessedOf(p) = <<>>

\* One ring has overflowed while the other project's ring holds an event.
C9_Witness ==
    \E p, q \in DOMAIN events :
        /\ p # q
        /\ Len(ProcessedOf(p)) > buffer_size
        /\ Len(events[q]) > 0

-----------------------------------------------------------------------------
(* Properties of the subscriber manager.                                   *)

\* C10: the lines written to an accepted subscriber whose peer keeps reading
\* are a contiguous run of the state owner's processing sequence: it starts
\* with the (at most replay_count) events received just before the accept and
\* goes on through every event received since, in order, none twice.
C10_ContiguousRun ==
    \A c \in DOMAIN accepted_at :
        peer_open[c] =>
            LET first == Max(1, accepted_at[c] - replay_count + 1)
            IN  /\ c \in Range(subscribers)
                /\ lines[c] = SubSeq(ProcessedEvents, first, sub_received)
                /\ \A i, j \in 1..Len(lines[c]) : lines[c][i] = lines[c][j] => i = j

\* A subscriber accepted after more than replay_count events has its replay
\* prefix and a live event after it.
C10_Witness ==
    \E c \in DOMAIN accepted_at :
        /\ peer_open[c]
        /\ accepted_at[c] > replay_count
        /\ sub_received > accepted_at[c]
        /\ Len(lines[c]) = replay_count + 1

\* C11: a subscriber accepted when more events of project alpha than its ring
\* holds have been processed, and all of them received by the manager, reads
\* as its first buffer_size lines what the ring of alpha retains.
C11_ReplayIsRing ==
    \A c \in DOMAIN accepted_at :
        (/\ peer_open[c]
         /\ accepted_at[c] = Len(processed)
         /\ Len(ProcessedOf("alpha")) = Len(processed)
         /\ Len(processed) > buffer_size)
            => /\ Len(lines[c]) >= buffer_size
               /\ SubSeq(lines[c], 1, buffer_size) = events["alpha"]

-----------------------------------------------------------------------------
(* Properties of classify_priority.                                        *)

\* The table of priorities by (the event is of the active project, level).
PriorityTable(is_active, level) ==
    CASE is_active /\ level = "error" -> "critical"
      [] is_active /\ level = "success" -> "high"
      [] is_active /\ level = "warning" -> "high"
      [] is_active /\ level \notin {"error", "success", "warning"} -> "low"
      [] ~is_active /\ level = "error" -> "high"
      [] ~is_active /\ level = "success" -> "medium"
      [] ~is_active /\ level = "warning" -> "silent"
      [] ~is_active /\ level \notin {"error", "success", "warning"} -> "silent"

\* C2: classify_priority returns the table's entry for (active_project =
\* event.project, event.level, a missing level counting as info), and the
\* same priority for every event of the same project and level, whatever its
\* type, source, ts, title and incoming priority.
C2_ClassifyIsTable ==
    (classify_call # None /\ classify_call.result # None) =>
        LET active == classify_call.active
            event == classify_call.event
            level == IF event.level = None THEN "info" ELSE event.level[1]
        IN  /\ classify_call.result
                  = Some(PriorityTable(active # None /\ active[1] = event.project, level))
            /\ \A other \in ClassifyEvents :
                  (other.project = event.project /\ other.level = event.level)
                      => Some(classify_priority(active, other)) = classify_call.result

\* A warning of a project that is not the active one, sent with priority
\* critical by its emitter, has been classified silent.
C2_Witness ==
    /\ classify_call # None
    /\ classify_call.active # None
    /\ classify_call.active # Some(classify_call.event.project)
    /\ classify_call.event.level = Some("warning")
    /\ classify_call.event.priority = Some("critical")
    /\ classify_call.result = Some("silent")

-----------------------------------------------------------------------------
(* Properties of the supervisor.                                           *)

\* In a step, service i gets a new child.
Spawned(i) == services'[i].child # None /\ services'[i].child # services[i].child

\* In a step, service i loses the child it had.
Exited(i) == services[i].child # None /\ services'[i].child # services[i].child

\* The step is graceful_shutdown.
ShuttingDown == sup_pc = "top" /\ SHUTDOWN /\ sup_pc' = "done"

\* C3: restart_count never decreases; it grows by one in exactly the steps in
\* which the service gets a new child (a respawn, from running or from
\* backoff), and a respawn that fails leaves it as it was.
C3_RestartCountStep ==
    \A i \in DOMAIN services :
        /\ services'[i].restart_count >= services[i].restart_count
        /\ services'[i].restart_count
              = services[i].restart_count + (IF Spawned(i) THEN 1 ELSE 0)
        /\ Spawned(i) => services[i].status \in {"running", "backoff"}
        /\ (services[i].status # "failed" /\ services'[i].status = "failed")
              => services'[i].restart_count = services[i].restart_count

C3_RestartCountCountsRespawns == [][C3_RestartCountStep]_vars

\* One service has been respawned twice and runs; another failed to respawn.
C3_Witness ==
    \E i, j \in DOMAIN services :
        /\ services[i].restart_count >= 2
        /\ services[i].status = "running"
        /\ spawn_count[i] = services[i].restart_count + 1
        /\ services[j].status = "failed"
        /\ ran_for[j] # "none"
        /\ services[j].exit_code = Some(0)

\* C4: in every published ServicesState a running service carries a pid and a
\* stopped or failed service carries none.
C4_PidIffRunning ==
    published # None =>
        \A i \in DOMAIN published[1] :
            /\ published[1][i].status \in {"running", "stopped", "failed", "backoff"}
            /\ published[1][i].status = "running" => published[1][i].pid # None
            /\ published[1][i].status \in {"stopped", "failed"} => published[1][i].pid = None

\* C6 as stated: a stopped or failed service keeps its status in every step.
C6_TerminalKeepsStatus ==
    [][\A i \in DOMAIN services :
          Terminal(services[i]) => services'[i].status = services[i].status]_vars

\* C6: a stopped or failed service never gets a child again and never goes
\* to running or backoff; it keeps its status in every step of the loop, and
\* graceful shutdown marks it stopped, failed or not.
C6_TerminalStep ==
    \A i \in DOMAIN services :
        Terminal(services[i]) =>
            /\ services'[i].child = None
            /\ services'[i].restart_count = services[i].restart_count
            /\ services'[i].status
                  = (IF ShuttingDown THEN "stopped" ELSE services[i].status)

C6_TerminalUntilShutdown == [][C6_TerminalStep]_vars

\* Graceful shutdown has marked stopped a service that had failed to spawn.
C6_Witness ==
    /\ sup_pc = "done"
    /\ SHUTDOWN
    /\ \E i \in DOMAIN services : services[i].status = "stopped" /\ spawn_count[i] = 0

\* The backoff after n exits in a row of children that lived under 5 s.
BackoffSeconds(n) ==
    CASE n = 0 -> 0
      [] n \in 1..7 -> <<1, 2, 4, 8, 16, 30, 30>>[n]
      [] OTHER -> 30

\* C7: the backoff of a service is the one of the sequence 1, 2, 4, 8, 16, 30,
\* 30, .. that its count of short-lived exits in a row selects, each being
\* max(1, min(30, 2 x previous)); in status backoff it lies within 1..30.
C7_BackoffStep ==
    \A i \in DOMAIN services :
        (services[i].status = "running" /\ services'[i].status = "backoff")
            => services'[i].backoff = Max(1, Min(30, 2 * services[i].backoff))

C7_BackoffSequence ==
    /\ [](\A i \in DOMAIN services :
             /\ services[i].backoff = BackoffSeconds(short_exits[i])
             /\ services[i].status = "backoff" => services[i].backoff \in 1..30)
    /\ [][C7_BackoffStep]_vars

\* A service is in backoff for 30 s the second time.
C7_Witness ==
    \E i \in DOMAIN services :
        /\ services[i].status = "backoff"
        /\ short_exits[i] = 7
        /\ services[i].backoff = 30

\* C8: the backoff changes only when a child exits; it returns to zero only
\* at the exit of a child that lived 5 s or more; a spawn leaves it as it is,
\* so the exit of a respawned child within 5 s doubles the backoff it had.
C8_BackoffStep ==
    \A i \in DOMAIN services :
        /\ services'[i].backoff # services[i].backoff => Exited(i) /\ ~ShuttingDown
        /\ (services'[i].backoff = 0 /\ services[i].backoff # 0) => ran_for'[i] = "long"
        /\ (Spawned(i) /\ ~Exited(i)) => services'[i].backoff = services[i].backoff
        /\ (Exited(i) /\ services'[i].status = "backoff" /\ services[i].restart_count > 0)
              => services'[i].backoff = Min(30, Max(1, 2 * services[i].backoff))

C8_BackoffResetsAtLongExit ==
    /\ [](\A i \in DOMAIN services :
             (spawn_count[i] <= 1 /\ ran_for[i] = "none") => services[i].backoff = 0)
    /\ [][C8_BackoffStep]_vars

\* A respawned child has exited within 5 s and the backoff went on doubling.
C8_Witness ==
    \E i \in DOMAIN services :
        /\ services[i].status = "backoff"
        /\ services[i].restart_count >= 1
        /\ services[i].backoff >= 2

-----------------------------------------------------------------------------
(* Properties of the state files.                                          *)

\* C13: what a reader of the target path observes is a complete content, of
\* a state the writer serialized, also after a write of the temp file that
\* failed or stopped part way.
C13_ReaderSeesComplete ==
    observed # None =>
        /\ observed[1].complete
        /\ observed[1].version \in 1..file_version

-----------------------------------------------------------------------------
(* Properties of the announcer.                                            *)

\* The messages sent for a key, and the instants of the events read for it.
SaidFor(key) ==
    LET Is(m) == m.project = key[1] /\ m.type = key[2] IN SelectSeq(speech_tx, Is)

HeardAt(key) ==
    LET Is(h) == h.key = key
        of == SelectSeq(heard, Is)
    IN  [i \in 1..Len(of) |-> of[i].at]

\* Of occurrences at the given instants, those that open a cooldown window:
\* the first, and each first one at or after the end of the window before.
RECURSIVE Opens(_, _, _)
Opens(times, cooldown, until) ==
    IF times = <<>> THEN <<>>
    ELSE IF Head(times) < until THEN Opens(Tail(times), cooldown, until)
    ELSE <<Head(times)>> \o Opens(Tail(times), cooldown, Head(times) + cooldown)

\* C14: for every key the immediate messages are exactly one per cooldown
\* window, for the occurrence that opens it (every other occurrence in the
\* window sends nothing), and between the immediate messages of two windows,
\* and after the last, there is at most one batch message, sent when the
\* window has ended.
C14_OnePerWindow ==
    \A key \in TwoKeys :
        LET said == SaidFor(key)
            IsImmediate(m) == m.kind = "immediate"
            immediate == SelectSeq(said, IsImmediate)
        IN  /\ [i \in 1..Len(immediate) |-> immediate[i].at]
                  = Opens(HeardAt(key), ShortCooldown, 0)
            /\ said # <<>> => said[1].kind = "immediate"
            /\ \A i \in 2..Len(said) :
                  said[i].kind = "batch"
                      => /\ said[i - 1].kind = "immediate"
                         /\ said[i].at >= said[i - 1].at + ShortCooldown

\* Of one key, an occurrence was spoken, a later one suppressed, and the one
\* after the window sent the batch message and then its own; the other key
\* was spoken in between.
C14_Witness ==
    \E key, other \in TwoKeys :
        /\ key # other
        /\ SaidFor(other) # <<>>
        /\ Len(HeardAt(key)) >= 3
        /\ \E i \in 2..Len(SaidFor(key)) - 1 :
              /\ SaidFor(key)[i].kind = "batch"
              /\ SaidFor(key)[i + 1].kind = "immediate"
              /\ SaidFor(key)[i + 1].at = SaidFor(key)[i].at

\* The occurrences of a message's key read in the window opened at an instant.
InWindow(m, opened, cooldown) ==
    {j \in DOMAIN heard :
        /\ heard[j].key = CooldownKey(m.project, m.type)
        /\ opened <= heard[j].at
        /\ heard[j].at < opened + cooldown}

\* The instant of the last immediate message of message i's key before i.
OpenedBefore(i) ==
    LET before == {j \in 1..(i - 1) :
                      /\ speech_tx[j].kind = "immediate"
                      /\ speech_tx[j].project = speech_tx[i].project
                      /\ speech_tx[j].type = speech_tx[i].type}
    IN  speech_tx[CHOOSE j \in before : \A k \in before : k <= j].at

\* C15: the number in a batch message is the number of occurrences that were
\* suppressed in the window it closes; and with agent.completed read at
\* t = 0, 1, 2, 3, 4 and 6 the messages are the one of t = 0 and, at t = 6,
\* the batch message with the number 4.
C15_BatchCountsSuppressed ==
    /\ \A i \in DOMAIN speech_tx :
          speech_tx[i].kind = "batch"
              => speech_tx[i].count
                    = Cardinality(InWindow(speech_tx[i], OpenedBefore(i), cooldown_sec)) - 1
    /\ (HeardAt(CooldownKey("alpha", "agent.completed")) = <<0, 1, 2, 3, 4, 6>>
            /\ cmd_pc = "flush")
          => /\ speech_tx[1].kind = "immediate" /\ speech_tx[1].at = 0
             /\ \E i \in 2..Len(speech_tx) :
                   /\ speech_tx[i].kind = "batch"
                   /\ speech_tx[i].count = 4
                   /\ speech_tx[i].at = 6

-----------------------------------------------------------------------------
(* Properties of the speech worker.                                        *)

\* C16: a message spoken in state http makes an HTTP request; when it fails
\* the state becomes fallback and the same message is tried once on the
\* fallback, and no more; a probe is made only outside http, one at a time
\* and no sooner than 60 s after the probe before; with a successful probe
\* the message at hand goes by HTTP, and the state is http unless that
\* request fails; the state never goes from http or fallback to none.
C16_Failover ==
    [][LET attempted == SubSeq(attempts', Len(attempts) + 1, Len(attempts'))
           probed == SubSeq(probes', Len(probes) + 1, Len(probes'))
       IN  /\ (engine = "Http" /\ spoken' = spoken + 1)
                 => /\ attempted # <<>>
                    /\ attempted[1].via = "http"
                    /\ attempted[1].n = spoken'
                    /\ attempted[1].ok => (Len(attempted) = 1 /\ engine' = "Http")
                    /\ ~attempted[1].ok
                          => /\ engine' = "Fallback"
                             /\ Len(attempted) = 2
                             /\ attempted[2].via = "fallback"
                             /\ attempted[2].n = attempted[1].n
           /\ probed # <<>>
                 => /\ engine # "Http"
                    /\ Len(probed) = 1
                    /\ probes # <<>> => probed[1].at >= probes[Len(probes)].at + 60
           /\ (probed # <<>> /\ probed[1].ok)
                 => /\ attempted # <<>>
                    /\ attempted[1].via = "http"
                    /\ engine' = IF attempted[1].ok THEN "Http" ELSE "Fallback"
           /\ engine \in {"Http", "Fallback"} => engine' # "None"]_vars

\* An HTTP request failed and its message went to the fallback; a probe 60 s
\* or more later failed, a later one succeeded, and the message that made it
\* went by HTTP.
C16_Witness ==
    \E i, j \in DOMAIN attempts, p, q \in DOMAIN probes :
        /\ i + 1 < j /\ 1 < p /\ p < q
        /\ attempts[i].via = "http" /\ ~attempts[i].ok
        /\ attempts[i + 1].via = "fallback" /\ attempts[i + 1].n = attempts[i].n
        /\ ~probes[p].ok /\ probes[q].ok
        /\ attempts[j].via = "http" /\ attempts[j].ok
        /\ attempts[j].n = spoken
        /\ engine = "Http"
        /\ last_http_check = probes[q].at

-----------------------------------------------------------------------------
(* Properties of graceful_shutdown.                                        *)

\* C17: a child that has not exited is sent SIGKILL no earlier than 5 s and
\* earlier than 10 s after the supervisor received the signal, whatever the
\* services are and however long their stop commands take.
C17_KillBetween5And10 ==
    \A k \in DOMAIN sent :
        (sent[k].what = "SIGKILL" /\ sent[k].running)
            => /\ sent[k].at >= signal_at[1] + 5000
               /\ sent[k].at < signal_at[1] + 10000

\* What phase 1 has done for service i.
SentTo(i, what) == {k \in DOMAIN sent : sent[k].svc = i /\ sent[k].what = what}

\* C18: once phase 1 is over, a service that held a child then has had, if
\* it has a stop_command, that command run exactly once, in the directory the
\* service runs in, and no SIGTERM; if it has none, exactly one SIGTERM, to
\* its process group; a service without a child has had neither.
C18_StopOrTerm ==
    sup_pc = "phase2"
        => \A i \in DOMAIN services :
              IF services[i].child = None
              THEN SentTo(i, "stop_command") = {} /\ SentTo(i, "SIGTERM") = {}
              ELSE IF sup_config[i].stop_command # None
              THEN /\ Cardinality(SentTo(i, "stop_command")) = 1
                   /\ \A k \in SentTo(i, "stop_command") :
                         sent[k].cwd = svc_cwd(sup_config[i].cwd)
                   /\ SentTo(i, "SIGTERM") = {}
              ELSE /\ Cardinality(SentTo(i, "SIGTERM")) = 1
                   /\ \A k \in SentTo(i, "SIGTERM") : sent[k].group = services[i].pid[1]
                   /\ SentTo(i, "stop_command") = {}

\* C20: when graceful_shutdown has returned, no service has a child that is
\* alive or exited and not waited for, every service is stopped and holds no
\* child, the state file holds the services as they are then, and the pid
\* file is gone.
C20_ShutdownComplete ==
    (sup_pc = "done" /\ signal_at # None)
        => /\ \A i \in DOMAIN services :
                 /\ proc[i] \in {"reaped", "none"}
                 /\ services[i].status = "stopped"
                 /\ services[i].child = None
           /\ published = Some([i \in DOMAIN services |->
                                  [pid |-> services[i].pid, status |-> "stopped",
                                   restart_count |-> services[i].restart_count,
                                   exit_code |-> services[i].exit_code]])
           /\ ~pid_file

\* A shutdown that is over, of a service whose child ran on until SIGKILL
\* and of a service that was waiting in backoff.
C20_Witness ==
    /\ sup_pc = "done"
    /\ signal_at # None
    /\ proc = <<"reaped", "none">>
    /\ services[2].backoff = 1
    /\ \E k \in DOMAIN sent : sent[k].what = "SIGKILL" /\ sent[k].running

-----------------------------------------------------------------------------
(* Properties of the fast-crash loop.                                      *)

\* C19: with a command that fails at once and restart = always, by 20 s of
\* supervision exactly five service.restarted events have been emitted, the
\* service is running or in backoff, and the k-th respawn came once the time
\* since the last exit was at least the backoff then current, 1, 2, 4, 8 and
\* 16 s in turn.
C19_FiveRestartsIn20s ==
    /\ \A i \in DOMAIN services : services[i].status \in {"running", "backoff"}
    /\ \A k \in DOMAIN restarted :
          /\ restarted[k].backoff = 2 ^ (k - 1)
          /\ restarted[k].waited >= restarted[k].backoff * 1000
    /\ sup_now >= 20000
          => Cardinality({k \in DOMAIN restarted : restarted[k].at <= 20000}) = 5

-----------------------------------------------------------------------------
(* More properties of graceful_shutdown.                                   *)

\* C30: SIGKILL goes only to the process group of a service whose child had
\* not been seen to have exited in phase 2: a child that try_wait reaped
\* there is sent no SIGKILL in phase 3.
C30_KillOnlyStragglers ==
    [][\A k \in DOMAIN sent' :
          (k > Len(sent) /\ sent'[k].what = "SIGKILL")
              => proc[sent'[k].svc] # "reaped"]_vars

-----------------------------------------------------------------------------
(* More properties of the supervisor loop.                                 *)

\* Whether a restart is due for the exit just seen of service i: the policy
\* is always, or it is on-failure and the exit was not a success.
RestartDue(i) ==
    \/ sup_config[i].restart = "always"
    \/ sup_config[i].restart = "on-failure" /\ services'[i].exit_code # Some(0)

\* C28: a step of the for loop changes the status of a service, or gives it
\* a new child, only in one of these ways: running to stopped (exit success,
\* no restart due), running to failed (exit failure under never, liveness
\* error, or failed respawn), running to running (restart due, lived 5 s or
\* more, respawn ok), running to backoff (restart due, lived less), backoff
\* to running (spawn ok), backoff to failed (spawn failed); a failed service
\* is never spawned again.
C28_Transitions ==
    [][sup_pc = "svc"
          => \A i \in DOMAIN services :
                LET from == services[i].status
                    to == services'[i].status
                    spawned == spawn_count'[i] > spawn_count[i]
                IN  (from # to \/ spawned)
                        => \/ /\ from = "running" /\ to = "stopped" /\ ~spawned
                              /\ services'[i].exit_code = Some(0)
                              /\ ~RestartDue(i)
                           \/ /\ from = "running" /\ to = "failed" /\ ~spawned
                              /\ \/ /\ sup_config[i].restart = "never"
                                    /\ services'[i].exit_code # Some(0)
                                    /\ ran_for'[i] # "none"
                                 \/ /\ services'[i].exit_code = services[i].exit_code
                                    /\ ran_for'[i] = ran_for[i]
                                 \/ RestartDue(i) /\ ran_for'[i] = "long"
                           \/ /\ from = "running" /\ to = "running" /\ spawned
                              /\ RestartDue(i) /\ ran_for'[i] = "long"
                           \/ /\ from = "running" /\ to = "backoff" /\ ~spawned
                              /\ RestartDue(i) /\ ran_for'[i] = "short"
                           \/ from = "backoff" /\ to = "running" /\ spawned
                           \/ from = "backoff" /\ to = "failed" /\ ~spawned]_vars

\* A service killed by a signal under on-failure went to backoff and was
\* respawned; the other failed, having lived long, and stays failed.
C28_Witness ==
    \E i, j \in DOMAIN services :
        /\ sup_config[i].restart = "on-failure"
        /\ services[i].exit_code = None
        /\ services[i].status = "running"
        /\ services[i].restart_count > 0
        /\ ran_for[i] = "short"
        /\ services[j].status = "failed"
        /\ ran_for[j] = "long"


\* C29: after the initial spawns, at the end of every iteration of the loop
\* and after graceful_shutdown, the state file holds, for every service, the
\* pid, status, restart_count and exit_code the supervisor has in memory.
C29_PublishedIsCurrent ==
    sup_pc \in {"top", "done"}
        => /\ published # None
           /\ DOMAIN published[1] = DOMAIN services
           /\ \A i \in DOMAIN services :
                 /\ published[1][i].pid = services[i].pid
                 /\ published[1][i].status = services[i].status
                 /\ published[1][i].restart_count = services[i].restart_count
                 /\ published[1][i].exit_code = services[i].exit_code

\* An iteration has ended that saw a respawn and a failure with an exit code.
C29_Witness ==
    /\ sup_pc = "top"
    /\ \E i, j \in DOMAIN services :
          /\ services[i].restart_count > 0
          /\ services[i].status = "running"
          /\ services[j].status = "failed"
          /\ services[j].exit_code = Some(1)
          /\ published[1][j].exit_code = Some(1)


\* C21: with every service restart = never, once the initial spawns are done
\* and no child is alive the supervisor's loop comes to its end (Ok(())), no
\* signal needed; without a signal the loop has ended only if every service
\* is stopped or failed, and at the end of an iteration it ends if and only
\* if they all are.
C21_OneShotsExit ==
    /\ ((/\ \A i \in DOMAIN sup_config : sup_config[i].restart = "never"
         /\ sup_pc \notin {"spawn", "publish"}
         /\ \A i \in DOMAIN proc : proc[i] # "alive")
            ~> sup_pc = "done")
    /\ []((sup_pc = "done" /\ ~SHUTDOWN)
            => \A i \in DOMAIN services : services[i].status \in {"stopped", "failed"})
    /\ [][sup_pc = "end"
            => ((sup_pc' = "done")
                  = (\A i \in DOMAIN services :
                        services[i].status \in {"stopped", "failed"}))]_vars

\* Two one-shots, one exited with success and one with failure, and the
\* supervisor has ended without a signal.
C21_Witness ==
    /\ sup_pc = "done"
    /\ ~SHUTDOWN
    /\ \A i \in DOMAIN sup_config : sup_config[i].restart = "never"
    /\ \E i, j \in DOMAIN services :
          services[i].status = "stopped" /\ services[j].status = "failed"


\* The events a step emits for service i, and those of one type.
EmittedFor(i) ==
    LET emitted == SubSeq(sup_events', Len(sup_events) + 1, Len(sup_events'))
        Is(e) == e.svc = i
    IN  SelectSeq(emitted, Is)

EmittedOf(i, type) ==
    LET Is(e) == e.type = type IN SelectSeq(EmittedFor(i), Is)

\* C22: a successful initial spawn emits one service.started; a successful
\* respawn one service.restarted with the new pid and the restart count; an
\* exit seen with success one service.stopped; an exit seen with failure one
\* service.crashed, whether or not the service is restarted or put in
\* backoff; and nothing else is emitted.
C22_OneEventPerTransition ==
    [][\A i \in DOMAIN services' :
          LET first == i > Len(services)
              respawn == ~first /\ spawn_count'[i] > spawn_count[i]
              exit == ~first /\ last_exit'[i] # last_exit[i]
              clean == exit /\ services'[i].exit_code = Some(0)
              failing == exit /\ services'[i].exit_code # Some(0)
              Count(b) == IF b THEN 1 ELSE 0
          IN  /\ Len(EmittedOf(i, "service.started")) = Count(first)
              /\ Len(EmittedOf(i, "service.restarted")) = Count(respawn)
              /\ respawn => EmittedOf(i, "service.restarted")[1].meta
                               = [pid |-> services'[i].pid,
                                  restart_count |-> services'[i].restart_count]
              /\ Len(EmittedOf(i, "service.stopped")) = Count(clean)
              /\ Len(EmittedOf(i, "service.crashed")) = Count(failing)]_vars

-----------------------------------------------------------------------------
(* Properties of the emit listener.                                        *)

\* C23: a line read that is a JSON object with type, project and source is
\* sent to the state owner, with ts the current time if the line has no ts
\* or an empty one and the line's ts otherwise, and with level info if the
\* line has no level and the line's level otherwise.
C23_MissingFieldsFilled ==
    [][(emit_stream # None /\ emit_stream' # emit_stream /\ emit_stream[1] # <<>>)
          => LET line == Head(emit_stream[1])
             IN  (line.kind = "json" /\ line.type # None)
                    => emit_taken'
                         = Append(emit_taken,
                                  [event_type |-> line.type[1],
                                   ts |-> IF line.ts \in {None, Some("")}
                                          THEN "now" ELSE line.ts[1],
                                   level |-> IF line.level = None
                                             THEN Some("info") ELSE line.level])]_vars

\* The events of the lines that parse, in the order of the lines.
RECURSIVE EventsOf(_)
EventsOf(written) ==
    IF written = <<>> THEN <<>>
    ELSE (IF from_str(Head(written)) = None THEN <<>>
          ELSE <<stamped(from_str(Head(written))[1])>>) \o EventsOf(Tail(written))

\* C24: when the listener is done with a connection, it has sent the state
\* owner the events of all the lines written on it that are valid events, in
\* order, and nothing for the other lines.
C24_BadLineSkipped ==
    emit_stream = None => emit_taken = EventsOf(emit_offered)

-----------------------------------------------------------------------------
(* Properties of the daemon's shutdown.                                    *)

\* C25: once the shutdown flag is set, every thread comes to see it and
\* ends, and run_daemon returns, its final state written, whatever the
\* compositor and the emit clients do or do not do.
C25_DaemonFinishes ==
    run_daemon.SHUTDOWN
        ~> /\ run_daemon.state_owner = "returned"
           /\ run_daemon.final_state_written
           /\ run_daemon.event_stream = "returned"
           /\ run_daemon.emit_listener = "returned"
           /\ run_daemon.subscriber_manager = "returned"

-----------------------------------------------------------------------------
(* Properties of the interrupt flag.                                       *)

\* C26: an utterance that was playing when a critical event arrived is
\* abandoned before it completes, the flag having been set and seen.
C26_CriticalInterrupts ==
    \A k \in DOMAIN speech.finished :
        speech.finished[k].overtaken => speech.finished[k].how = "abandoned"

-----------------------------------------------------------------------------
(* Properties of starting a singleton.                                     *)

\* C27: at most one supervisor of the project is alive at any time, however
\* the concurrent starts interleave.
C27_AtMostOneLive == Cardinality(singleton.live) <= 1

-----------------------------------------------------------------------------
(* Properties of the subscriber set.                                       *)

\* A fan-out step: the manager takes one event from the state owner.
FanOut == sub_received' = sub_received + 1

\* The connection the accept loop is taking now.
Accepting(c) == pending # <<>> /\ Head(pending) = c /\ pending' = Tail(pending)

\* C31: a subscriber leaves the live set exactly at the fan-out whose write
\* to it fails, and a connection whose replay write fails never enters it;
\* a connection outside the set gets no further line; every other subscriber
\* stays, in the same order, and gets the event, and the replay buffer takes
\* the event whatever the writes did.
C31_DroppedOnFailedWrite ==
    [][/\ \A c \in Range(subscribers) :
              (c \notin Range(subscribers')) <=> (FanOut /\ ~write_ok(c))
       /\ \A c \in DOMAIN lines :
              /\ Accepting(c) =>
                    ((c \in Range(subscribers')) <=> ~(replay_buffer # <<>> /\ ~write_ok(c)))
              /\ (c \notin Range(subscribers) /\ ~Accepting(c)) =>
                    (lines'[c] = lines[c] /\ c \notin Range(subscribers'))
       /\ FanOut =>
              LET event == subscriber_tx[sub_received + 1]
                  stays(c) == write_ok(c)
              IN  /\ subscribers' = SelectSeq(subscribers, stays)
                  /\ \A d \in Range(subscribers) :
                         write_ok(d) => lines'[d] = Append(lines[d], event)
                  /\ replay_buffer' = replay_push(replay_buffer, event)
       /\ ~FanOut => replay_buffer' = replay_buffer]_vars

\* One subscriber was dropped at a fan-out while another went on receiving.
C31_Witness ==
    \E c, d \in DOMAIN accepted_at :
        /\ c \notin Range(subscribers)
        /\ d \in Range(subscribers)
        /\ ~peer_open[c]
        /\ lines[c] # <<>>
        /\ Len(lines[d]) > Len(lines[c])
        /\ accepted_at[c] <= accepted_at[d]

-----------------------------------------------------------------------------
(* Properties of the focus change.                                         *)

\* The process_event calls of the step, in order.
NewlyProcessed == SubSeq(processed', Len(processed) + 1, Len(processed'))

\* The project of a workspace id under the map, if it has one.
ProjectOf(id) ==
    IF id # None /\ id[1] \in DOMAIN workspace_to_project
    THEN <<workspace_to_project[id[1]]>> ELSE <<>>

-----------------------------------------------------------------------------
(* Properties of the active project.                                       *)

\* C35: every event is classified with active_project equal to
\* workspace_to_project[focused_workspace_id] for the maps of that moment:
\* the map a snapshot has just rebuilt for workspace.created and
\* workspace.destroyed, the previous focus for workspace.deactivated, the
\* new focus for every other event.
C35_ActiveIsDerivedAtClassify ==
    [][\A k \in DOMAIN NewlyProcessed :
           LET call == NewlyProcessed[k]
               focus == IF call.event.type = "workspace.deactivated"
                        THEN focused_workspace_id ELSE focused_workspace_id'
           IN  call.active = update_active_project(focus, workspace_to_project')]_vars


\* The mirrored workspaces whose is_focused flag is set.
FocusedMirrored == {i \in DOMAIN workspaces : workspaces[i].is_focused}

\* C36: focused_workspace_id is the id of the mirrored workspace whose
\* is_focused flag is set, and none if no mirrored workspace is focused.
C36_FocusedIdIsFocusedWorkspace ==
    IF FocusedMirrored = {}
    THEN focused_workspace_id = None
    ELSE \E i \in FocusedMirrored : FocusedMirrored = {i} /\ focused_workspace_id = Some(i)

-----------------------------------------------------------------------------
(* Properties of window.urgent.                                            *)

\* C37: a window.urgent event is processed only for a project that is not
\* the active one; it is classified silent, becomes the newest entry of its
\* project's ring and of the channel to the subscriber manager, and no
\* desktop notification is made.
C37_UrgentIsSilent ==
    [][\A k \in DOMAIN NewlyProcessed :
           LET call == NewlyProcessed[k]
               ring == events'[call.event.project]
           IN  call.event.type = "window.urgent" =>
                  /\ call.active # Some(call.event.project)
                  /\ call.event.priority = Some("silent")
                  /\ ring[Len(ring)] = call.event
                  /\ subscriber_tx'[Len(subscriber_tx')] = call.event
                  /\ notified' = notified]_vars

\* A window.urgent event was processed while some project was active.
C37_Witness ==
    \E k \in DOMAIN processed :
        /\ processed[k].event.type = "window.urgent"
        /\ processed[k].active # None
        /\ processed[k].event \in Range(subscriber_tx)
        /\ processed[k].event \in Range(events[processed[k].event.project])

-----------------------------------------------------------------------------
(* Properties of the mute marker.                                          *)

\* The speakable events of a key read up to an instant.
HeardBy(key, at) == {i \in DOMAIN heard : heard[i].key = key /\ heard[i].at <= at}

\* C33, as stated: while the marker file exists no utterance is enqueued and
\* no cooldown entry is created, counted or flushed.
C33_NothingWhileMarkerExists ==
    [][muted.exists => (speech_tx' = speech_tx /\ entries' = entries)]_vars

\* C33, for the marker as the loop sees it: an iteration that finds the
\* marker at its top enqueues nothing and leaves the cooldown entries alone,
\* and what was read in such iterations contributes to nothing afterwards:
\* every entry counts no more than the events read unmuted, every immediate
\* utterance is for an event read unmuted at that instant, and every batch
\* count stays below the number of events read unmuted.
C33_MutedIterationDiscards ==
    /\ [][(cmd_pc = "flush" /\ muted.exists)
             => (speech_tx' = speech_tx /\ entries' = entries /\ heard' = heard)]_vars
    /\ [](/\ \A key \in DOMAIN entries :
                entries[key].count <= Cardinality(HeardBy(key, cmd_now))
          /\ \A k \in DOMAIN speech_tx :
                LET m == speech_tx[k]
                    key == CooldownKey(m.project, m.type)
                IN  IF m.kind = "immediate"
                    THEN \E i \in HeardBy(key, m.at) : heard[i].at = m.at
                    ELSE m.count <= Cardinality(HeardBy(key, m.at)))

\* A line was discarded in a muted iteration, and after unmuting an event of
\* the same key was spoken.
C33_Witness ==
    \E d \in DOMAIN muted.discarded, k \in DOMAIN speech_tx :
        /\ speech_tx[k].at > muted.discarded[d].at
        /\ CooldownKey(speech_tx[k].project, speech_tx[k].type) = muted.discarded[d].key
        /\ ~muted.exists

-----------------------------------------------------------------------------
(* Properties of the engine states none and fallback.                      *)

\* C34: an utterance the worker takes while the engine state is none is
\* dropped: no request of any kind is made for it, and the state is none
\* afterwards.
C34_NoneDrops ==
    [][(engine = "None" /\ spoken' = spoken + 1)
          => (attempts' = attempts /\ engine' = "None")]_vars

\* C40: the engine state is fallback only with a fallback engine or a
\* fallback command configured; with neither, the state after a failed HTTP
\* request is none and no fallback command runs.
C40_FallbackOnlyIfConfigured ==
    /\ engine = "Fallback" => fallback_configured
    /\ ~fallback_configured =>
          /\ \A k \in DOMAIN attempts : attempts[k].via = "fallback" => ~attempts[k].ok
          /\ (attempts # <<>> /\ attempts[Len(attempts)].n = spoken
                 /\ \E k \in DOMAIN attempts : attempts[k].n = spoken /\ attempts[k].via = "http"
                                                /\ ~attempts[k].ok)
                => engine = "None"

-----------------------------------------------------------------------------
(* Properties of the emit socket with several clients.                     *)

\* The lines of a client forwarded so far, in order.
ForwardedOf(c) ==
    LET Is(l) == l.client = c IN SelectSeq(emit_socket.forwarded, Is)

\* C38: every line a client has written is eventually forwarded to the
\* state owner, whatever the other clients do with their connections, and
\* the lines of one connection are forwarded in the order written.
C38_EveryLineForwarded ==
    /\ \A c \in Emitters, n \in 1..MaxWritten :
          (c \in DOMAIN emit_socket.written /\ emit_socket.written[c] >= n)
              ~> (Len(ForwardedOf(c)) >= n)
    /\ [](\A c \in Emitters :
             \A k \in DOMAIN ForwardedOf(c) : ForwardedOf(c)[k].n = k)

-----------------------------------------------------------------------------
(* Properties of the announcer across its connections.                     *)

\* C39: an event the state owner processed once reaches the announcer's
\* cooldown check at most once: no event is a line of two of the
\* announcer's connections, nor twice a line of one.
C39_OneDecisionPerEvent ==
    \A c, d \in DOMAIN lines :
        \A i \in DOMAIN lines[c], j \in DOMAIN lines[d] :
            lines[c][i] = lines[d][j] => (c = d /\ i = j)

=============================================================================
